---- MODULE Spec2Model ----
(***************************************************************************)
(* YandereOS kernel core (kernel.h / kernel implementation, V3.5):         *)
(* task table, cooperative scheduler, watchdog, bump heap with            *)
(* compaction, mailboxes and semaphores.                                   *)
(*                                                                         *)
(* Conventions.  The millisecond clock millis() is the variable now; it    *)
(* is read once per kernel call and advances only between calls (Tick).   *)
(* uint32_t and size_t arithmetic is modular; the widths are ClockBits    *)
(* and SizeBits, scaled down from 32 so that every value stays inside the *)
(* model checker's integers.  KERNEL_HEAP_SIZE is a per-target constant    *)
(* of the code and is HeapSize here.                                       *)
(***************************************************************************)
EXTENDS Integers, Sequences, FiniteSets, TLC

\* ------------------------------------------------------------------------
\* Program constants (kernel.h)
\* ------------------------------------------------------------------------
MAX_TASKS == 8
MAX_FILE_HANDLES == 16
MAX_DIR_HANDLES == 4
MAX_MESSAGE_QUEUE_SIZE == 16
MAX_SEMAPHORES == 8
MSG_DATA_SIZE == 64
WATCHDOG_TIMEOUT_MS == 5000
WATCHDOG_PERIOD_MS == 1000
DEFAULT_PRIORITY == 10
HeaderSize == 16

SYS_OK == 0
SYS_ERR_INVALID_CALL == -1
SYS_ERR_PERMISSION == -2
SYS_ERR_NO_MEMORY == -3
SYS_ERR_NOT_FOUND == -4
SYS_ERR_IO_ERROR == -5
SYS_ERR_INVALID_PARAM == -6
SYS_ERR_TIMEOUT == -7
SYS_ERR_WOULD_BLOCK == -8

\* ------------------------------------------------------------------------
\* Bounds of the model
\* ------------------------------------------------------------------------
ClockBits == 16
SizeBits == 8
HeapSize == 64
MaxUptime == 5600
MaxWatchUptime == 15000
MaxLive == 2
MaxSends == 2
MaxAllocs == 3
MaxSems == 1
MaxSemValue == 1
MaxOpen == 1
MaxCalls == 2

ClockMod == 2 ^ ClockBits
SizeMod == 2 ^ SizeBits

TaskIds == 0 .. (MAX_TASKS - 1)
NoTask == -1
NullPtr == 0

TASK_EMPTY == "EMPTY"
TASK_READY == "READY"
TASK_RUNNING == "RUNNING"
TASK_SLEEPING == "SLEEPING"

VARIABLES
  now,               \* millis()
  tstate,            \* tasks[i].state
  priority,          \* tasks[i].priority
  entryPoint,        \* tasks[i].entryPoint != nullptr
  lastRun,           \* tasks[i].lastRun
  lastYield,         \* tasks[i].lastYield
  sleepUntil,        \* tasks[i].sleepUntil
  memoryUsed,        \* tasks[i].memoryUsed
  currentTaskId,
  watchdogEnabled,
  watchdogLastCheck,
  bootTime,
  initialized,       \* Kernel::initialized
  id,                \* tasks[i].id
  executing,         \* the task whose entry point is on the stack, or NoTask
  selected,          \* bestTask of the latest schedule() call
  sleepDue,          \* history: now + ms of a task's pending sleep, not wrapped
  kernelHeap,        \* the heap, one entry per 4-byte word, keyed by byte offset
  heapUsed,
  heapFault,         \* the heap code touched memory outside kernelHeap (undefined from there on)
  panicked,          \* Kernel::panic was called: the system is halted
  ptrs,              \* history: the payload addresses memAlloc has returned
  allocCalls,        \* history: the number of memAlloc calls made
  messageQueues,
  inbox,             \* history: per recipient, the messages sent and not yet received
  sendCalls,         \* history: the number of ipcSend calls counted by the driver
  semaphores,
  waiting,           \* the semWait loop the current task is inside, or NoWait
  fileHandles,       \* the kernel's file handle table
  dirHandles,        \* the kernel's directory handle table
  taskFileHandles,   \* per task, the file handles whose holds-bit is set
  taskDirHandles,    \* per task, the directory handles whose holds-bit is set
  permissions,       \* per task, its capability flags
  sdInitialized,
  hardware,          \* the pins and buses behind the Arduino adapters
  ret                \* the latest call: its name and its result

schedVars == <<now, tstate, priority, entryPoint, lastRun, lastYield, sleepUntil,
               currentTaskId, watchdogEnabled, watchdogLastCheck, bootTime,
               initialized, id, executing, selected, sleepDue>>
heapVars == <<kernelHeap, heapUsed, heapFault, panicked, ptrs>>
ipcVars == <<messageQueues, inbox, sendCalls>>
semVars == <<semaphores, waiting>>
handleVars == <<fileHandles, dirHandles, taskFileHandles, taskDirHandles>>
ioVars == <<handleVars, permissions, sdInitialized, hardware>>
vars == <<schedVars, memoryUsed, heapVars, allocCalls, ipcVars, semVars, ioVars, ret>>

Result(op, val) == [op |-> op, val |-> val]

WordOffsets == {o \in 0 .. (HeapSize - 4) : o % 4 = 0}
NoWait == [sem |-> -1, startTime |-> 0, timeoutMs |-> 0]
EmptyMessage ==
  [fromTaskId |-> 0, toTaskId |-> 0, data |-> <<>>, length |-> 0,
   timestamp |-> 0, valid |-> FALSE]
EmptyQueue ==
  [messages |-> [j \in 0 .. (MAX_MESSAGE_QUEUE_SIZE - 1) |-> EmptyMessage],
   head |-> 0, tail |-> 0, count |-> 0]
EmptySemaphore == [value |-> 0, maxValue |-> 0, inUse |-> FALSE, ownerTaskId |-> 0]

FileIds == 0 .. (MAX_FILE_HANDLES - 1)
DirIds == 0 .. (MAX_DIR_HANDLES - 1)
EmptyFileHandle == [inUse |-> FALSE, ownerTaskId |-> 0, canWrite |-> FALSE]
EmptyDirHandle == [inUse |-> FALSE, ownerTaskId |-> 0]
NoPermissions ==
  [canAccessSD |-> FALSE, canAccessDisplay |-> FALSE, canCreateTasks |-> FALSE,
   canAccessGPIO |-> FALSE, canAccessI2C |-> FALSE, canAccessSPI |-> FALSE]
TrustedPermissions ==
  [canAccessSD |-> TRUE, canAccessDisplay |-> TRUE, canCreateTasks |-> FALSE,
   canAccessGPIO |-> TRUE, canAccessI2C |-> TRUE, canAccessSPI |-> FALSE]

\* the capabilities createTask gives to every task
DefaultPermissions ==
  [canAccessSD |-> TRUE, canAccessDisplay |-> TRUE, canCreateTasks |-> FALSE,
   canAccessGPIO |-> TRUE, canAccessI2C |-> FALSE, canAccessSPI |-> FALSE]

\* one pin, the I2C bus and the SPI bus; calls counts the invocations of the
\* Arduino adapters (pinMode .. analogWrite, Wire, SPI)
Pins == {13}
PowerOnHardware ==
  [mode |-> [p \in Pins |-> 0], level |-> [p \in Pins |-> 0],
   pwm |-> [p \in Pins |-> 0], wire |-> "off", spi |-> FALSE, calls |-> 0]

\* ------------------------------------------------------------------------
\* Kernel::init
\* ------------------------------------------------------------------------
BootTimes == {7}

\* the state Kernel::init leaves when it runs at clock t and SD.begin
\* answers sd
InitWith(t, sd) ==
  /\ now = t
  /\ tstate = [i \in TaskIds |-> IF i = 0 THEN TASK_READY ELSE TASK_EMPTY]
  /\ priority = [i \in TaskIds |-> 0]
  /\ entryPoint = [i \in TaskIds |-> FALSE]
  /\ lastRun = [i \in TaskIds |-> 0]
  /\ lastYield = [i \in TaskIds |-> IF i = 0 THEN now ELSE 0]
  /\ sleepUntil = [i \in TaskIds |-> 0]
  /\ memoryUsed = [i \in TaskIds |-> 0]
  /\ currentTaskId = 0
  /\ watchdogEnabled = TRUE
  /\ watchdogLastCheck = now
  /\ bootTime = now
  /\ initialized = TRUE
  /\ id = [i \in TaskIds |-> IF i = 0 THEN 0 ELSE -1]
  /\ executing = NoTask
  /\ selected = NoTask
  /\ sleepDue = [i \in TaskIds |-> 0]
  /\ kernelHeap = [o \in WordOffsets |-> 0]
  /\ heapUsed = 0
  /\ heapFault = FALSE
  /\ panicked = FALSE
  /\ ptrs = {}
  /\ allocCalls = 0
  /\ messageQueues = [i \in TaskIds |-> EmptyQueue]
  /\ inbox = [i \in TaskIds |-> <<>>]
  /\ sendCalls = 0
  /\ semaphores = [s \in 0 .. (MAX_SEMAPHORES - 1) |-> EmptySemaphore]
  /\ waiting = NoWait
  /\ fileHandles = [h \in FileIds |-> EmptyFileHandle]
  /\ dirHandles = [h \in DirIds |-> EmptyDirHandle]
  /\ taskFileHandles = [i \in TaskIds |-> {}]
  /\ taskDirHandles = [i \in TaskIds |-> {}]
  /\ permissions = [i \in TaskIds |-> NoPermissions]
  /\ sdInitialized = sd
  /\ hardware = PowerOnHardware
  /\ ret = Result("init", 1)

\* Kernel::init with the SD card present
InitAt(t) == InitWith(t, TRUE)

Init == \E t \in BootTimes : InitAt(t)

\* ------------------------------------------------------------------------
\* The clock
\* ------------------------------------------------------------------------
\* the time since boot at clock t
Uptime(t) == (t - bootTime) % ClockMod

\* d ms pass, while the time since boot stays within limit
TickWithin(d, limit) ==
  /\ Uptime(now) + d <= limit
  /\ now' = (now + d) % ClockMod
  /\ UNCHANGED <<tstate, priority, entryPoint, lastRun, lastYield, sleepUntil,
                 currentTaskId, watchdogEnabled, watchdogLastCheck, bootTime,
                 initialized, id, executing, selected, sleepDue>>
  /\ UNCHANGED <<memoryUsed, heapVars, allocCalls, ipcVars, semVars, ret,
                 ioVars>>

Tick(d) == TickWithin(d, MaxUptime)

\* ------------------------------------------------------------------------
\* Task management
\* ------------------------------------------------------------------------
RECURSIVE FirstEmptyFrom(_)
FirstEmptyFrom(i) ==
  IF i >= MAX_TASKS THEN -1
  ELSE IF tstate[i] = TASK_EMPTY THEN i
  ELSE FirstEmptyFrom(i + 1)

allocateHighest ==
  IF \A i \in 1 .. (MAX_TASKS - 1) : tstate[i] # TASK_EMPTY THEN -1
  ELSE CHOOSE i \in 1 .. (MAX_TASKS - 1) :
         /\ tstate[i] = TASK_EMPTY
         /\ \A j \in (i + 1) .. (MAX_TASKS - 1) : tstate[j] # TASK_EMPTY

allocateTaskId == FirstEmptyFrom(1)

\* the entry of the table after freeFileHandle(handle), freeDirHandle(handle)
freeFileHandle(handle) == [fileHandles[handle] EXCEPT !.inUse = FALSE]
freeDirHandle(handle) == [dirHandles[handle] EXCEPT !.inUse = FALSE]

createTask(entry) ==
  LET taskId == allocateTaskId IN
  IF taskId < 0
  THEN /\ ret' = Result("createTask", SYS_ERR_NO_MEMORY)
       /\ UNCHANGED <<schedVars, memoryUsed, heapVars, allocCalls, ipcVars, semVars,
                      ioVars>>
  ELSE /\ tstate' = [tstate EXCEPT ![taskId] = TASK_READY]
       /\ entryPoint' = [entryPoint EXCEPT ![taskId] = entry]
       /\ priority' = [priority EXCEPT ![taskId] = DEFAULT_PRIORITY]
       /\ lastRun' = [lastRun EXCEPT ![taskId] = 0]
       /\ lastYield' = [lastYield EXCEPT ![taskId] = now]
       /\ sleepUntil' = [sleepUntil EXCEPT ![taskId] = 0]
       /\ memoryUsed' = [memoryUsed EXCEPT ![taskId] = 0]
       /\ sleepDue' = [sleepDue EXCEPT ![taskId] = 0]
       /\ taskFileHandles' = [taskFileHandles EXCEPT ![taskId] = {}]
       /\ taskDirHandles' = [taskDirHandles EXCEPT ![taskId] = {}]
       /\ permissions' = [permissions EXCEPT ![taskId] = DefaultPermissions]
       /\ ret' = Result("createTask", taskId)
       /\ id' = [id EXCEPT ![taskId] = taskId]
       /\ UNCHANGED <<now, currentTaskId, watchdogEnabled, watchdogLastCheck,
                      bootTime, initialized, executing, selected>>
       /\ UNCHANGED <<heapVars, allocCalls, ipcVars, semVars>>
       /\ UNCHANGED <<fileHandles, dirHandles, sdInitialized, hardware>>

SemaphoresReleased(taskId) ==
  [s \in DOMAIN semaphores |->
     IF semaphores[s].ownerTaskId = taskId
     THEN [semaphores[s] EXCEPT !.inUse = FALSE] ELSE semaphores[s]]

\* killTask has no statement on the semaphore table
SemaphoresAfterKill(taskId) == semaphores

killTask(taskId) ==
  IF taskId < 0 \/ taskId >= MAX_TASKS \/ tstate[taskId] = TASK_EMPTY \/ taskId = 0
  THEN /\ ret' = Result("killTask", SYS_OK)
       /\ UNCHANGED <<schedVars, memoryUsed, heapVars, allocCalls, ipcVars, semVars,
                      ioVars>>
  ELSE /\ fileHandles' = [h \in FileIds |->
                             IF h \in taskFileHandles[taskId]
                             THEN freeFileHandle(h) ELSE fileHandles[h]]
       /\ dirHandles' = [h \in DirIds |->
                            IF h \in taskDirHandles[taskId]
                            THEN freeDirHandle(h) ELSE dirHandles[h]]
       /\ tstate' = [tstate EXCEPT ![taskId] = TASK_EMPTY]
       /\ id' = [id EXCEPT ![taskId] = -1]
       /\ ret' = Result("killTask", SYS_OK)
       /\ UNCHANGED <<now, priority, entryPoint, lastRun, lastYield, sleepUntil,
                      currentTaskId, watchdogEnabled, watchdogLastCheck, bootTime,
                      initialized, executing, selected, sleepDue>>
       /\ semaphores' = SemaphoresAfterKill(taskId)
       /\ UNCHANGED <<memoryUsed, heapVars, allocCalls, ipcVars, waiting>>
       /\ UNCHANGED <<taskFileHandles, taskDirHandles, permissions,
                      sdInitialized, hardware>>

\* ------------------------------------------------------------------------
\* Watchdog and scheduler
\* ------------------------------------------------------------------------
WatchdogDue == watchdogEnabled /\ ((now - watchdogLastCheck) % ClockMod) >= WATCHDOG_PERIOD_MS

WatchdogHitsAtTimeout(i) ==
  /\ WatchdogDue
  /\ tstate[i] # TASK_EMPTY
  /\ tstate[i] # TASK_SLEEPING
  /\ ((now - lastYield[i]) % ClockMod) >= WATCHDOG_TIMEOUT_MS

WatchdogHits(i) ==
  /\ WatchdogDue
  /\ tstate[i] # TASK_EMPTY
  /\ tstate[i] # TASK_SLEEPING
  /\ ((now - lastYield[i]) % ClockMod) > WATCHDOG_TIMEOUT_MS

WatchdogKills(i) == IF WatchdogHits(i) THEN TASK_EMPTY ELSE tstate[i]

\* tasks[i].state after checkWatchdog
WatchdogState(i) ==
  IF WatchdogHits(i) /\ tstate[i] = TASK_RUNNING THEN TASK_READY ELSE tstate[i]

\* tasks[i].lastYield after checkWatchdog
WatchdogYield(i) == IF WatchdogHits(i) THEN now ELSE lastYield[i]

\* watchdogLastCheck after checkWatchdog
WatchdogCheck == IF WatchdogDue THEN now ELSE watchdogLastCheck

\* checkWatchdog(), the first statement of schedule(); the result recorded
\* is the number of warnings it prints
checkWatchdog ==
  /\ tstate' = [i \in TaskIds |-> WatchdogState(i)]
  /\ lastYield' = [i \in TaskIds |-> WatchdogYield(i)]
  /\ watchdogLastCheck' = WatchdogCheck
  /\ ret' = Result("checkWatchdog", Cardinality({i \in TaskIds : WatchdogHits(i)}))
  /\ UNCHANGED <<now, priority, entryPoint, lastRun, sleepUntil, currentTaskId,
                 watchdogEnabled, bootTime, initialized, id, executing, selected,
                 sleepDue>>
  /\ UNCHANGED <<memoryUsed, heapVars, allocCalls, ipcVars, semVars, ioVars>>

WakeTest(i) == now >= sleepUntil[i]

\* tasks[i].state after the selection loop of schedule()
WokenState(i) ==
  IF WatchdogState(i) = TASK_SLEEPING /\ WakeTest(i) THEN TASK_READY
  ELSE WatchdogState(i)

BetterOrEqual(p, bestPriority) == p >= bestPriority

Better(p, bestPriority) == p > bestPriority

\* the selection loop of schedule(), from slot i on
RECURSIVE SelectFrom(_, _, _)
SelectFrom(i, bestTask, bestPriority) ==
  IF i >= MAX_TASKS THEN bestTask
  ELSE IF WokenState(i) = TASK_READY /\ Better(priority[i], bestPriority)
       THEN SelectFrom(i + 1, i, priority[i])
       ELSE SelectFrom(i + 1, bestTask, bestPriority)

BestTask == SelectFrom(0, 0, -1)

Switches(best) == best # currentTaskId

SwitchedKeepsRunning(i, best) ==
  IF Switches(best) /\ i = best THEN TASK_RUNNING ELSE WokenState(i)

\* tasks[i].state after the switch to best
SwitchedState(i, best) ==
  IF ~Switches(best) THEN WokenState(i)
  ELSE IF i = best THEN TASK_RUNNING
  ELSE IF i = currentTaskId /\ WokenState(i) = TASK_RUNNING THEN TASK_READY
  ELSE WokenState(i)

schedule ==
  LET best == BestTask IN
  /\ tstate' = [i \in TaskIds |-> SwitchedState(i, best)]
  /\ lastYield' = [i \in TaskIds |-> WatchdogYield(i)]
  /\ watchdogLastCheck' = WatchdogCheck
  /\ currentTaskId' = best
  /\ lastRun' = IF Switches(best) THEN [lastRun EXCEPT ![best] = now] ELSE lastRun
  /\ selected' = best
  /\ executing' = IF entryPoint[best] /\ SwitchedState(best, best) = TASK_RUNNING
                  THEN best ELSE NoTask
  /\ ret' = Result("schedule", best)
  /\ UNCHANGED <<now, priority, entryPoint, sleepUntil, watchdogEnabled, bootTime,
                 initialized, id, sleepDue>>
  /\ UNCHANGED <<memoryUsed, heapVars, allocCalls, ipcVars, semVars, ioVars>>

\* the entry point of the executing task returns to schedule()
TaskReturn ==
  /\ executing' = NoTask
  /\ ret' = Result("return", SYS_OK)
  /\ UNCHANGED <<now, tstate, priority, entryPoint, lastRun, lastYield, sleepUntil,
                 currentTaskId, watchdogEnabled, watchdogLastCheck, bootTime,
                 initialized, id, selected, sleepDue>>
  /\ UNCHANGED <<memoryUsed, heapVars, allocCalls, ipcVars, semVars, ioVars>>

yield ==
  /\ tstate' = [tstate EXCEPT ![currentTaskId] = TASK_READY]
  /\ lastYield' = [lastYield EXCEPT ![currentTaskId] = now]
  /\ ret' = Result("yield", SYS_OK)
  /\ UNCHANGED <<now, priority, entryPoint, lastRun, sleepUntil, currentTaskId,
                 watchdogEnabled, watchdogLastCheck, bootTime, initialized, id,
                 executing, selected, sleepDue>>
  /\ UNCHANGED <<memoryUsed, heapVars, allocCalls, ipcVars, semVars, ioVars>>

SleepDeadline(ms) == (now + ms) % ClockMod

sleep(ms) ==
  /\ tstate' = [tstate EXCEPT ![currentTaskId] = TASK_SLEEPING]
  /\ sleepUntil' = [sleepUntil EXCEPT ![currentTaskId] = SleepDeadline(ms)]
  /\ lastYield' = [lastYield EXCEPT ![currentTaskId] = now]
  /\ sleepDue' = [sleepDue EXCEPT ![currentTaskId] = now + ms]
  /\ ret' = Result("sleep", SYS_OK)
  /\ UNCHANGED <<now, priority, entryPoint, lastRun, currentTaskId, watchdogEnabled,
                 watchdogLastCheck, bootTime, initialized, id, executing, selected>>
  /\ UNCHANGED <<memoryUsed, heapVars, allocCalls, ipcVars, semVars, ioVars>>

\* ------------------------------------------------------------------------
\* The scheduler under the host loop: setup() creates tasks, loop() calls
\* schedule() whenever no entry point is on the stack, tasks call the kernel
\* while their entry point runs.
\* ------------------------------------------------------------------------
SchedTicks == {2600}
SleepTimes == {0, 2600, ClockMod - 1}

InTask == executing # NoTask /\ executing = currentTaskId
InHost == executing = NoTask
LiveUsers == {i \in TaskIds : i # 0 /\ tstate[i] # TASK_EMPTY}

SchedCreate == /\ InHost \/ InTask
               /\ Cardinality(LiveUsers) < MaxLive
               /\ createTask(TRUE)
SchedSchedule == InHost /\ schedule
SchedReturn == InTask /\ TaskReturn
SchedYield == InTask /\ yield
SchedSleep == InTask /\ \E ms \in SleepTimes : sleep(ms)
SchedTick == \E d \in SchedTicks : Tick(d)

NextSched ==
  \/ SchedCreate
  \/ SchedSchedule
  \/ SchedReturn
  \/ SchedYield
  \/ SchedSleep
  \/ SchedTick

SpecSched == Init /\ [][NextSched]_vars

\* ------------------------------------------------------------------------
\* The watchdog under tasks that run for a long time between kernel calls:
\* the clock moves while an entry point runs, and may wrap around.
\* ------------------------------------------------------------------------
WatchTicks == {5000}
WatchBootTimes == {7, ClockMod - 5000}

InitWatch == \E t \in WatchBootTimes : InitAt(t)

WatchCreate == /\ InHost /\ selected = NoTask
               /\ Cardinality(LiveUsers) < MaxLive
               /\ createTask(TRUE)
WatchSchedule == InHost /\ schedule
WatchReturn == InTask /\ TaskReturn
WatchYield == InTask /\ yield
WatchTick == InTask /\ \E d \in WatchTicks : TickWithin(d, MaxWatchUptime)

NextWatch ==
  \/ WatchCreate
  \/ WatchSchedule
  \/ WatchReturn
  \/ WatchYield
  \/ WatchTick

SpecWatch == InitWatch /\ [][NextWatch]_vars

\* ------------------------------------------------------------------------
\* Heap: bump allocation, free, compaction
\* A block is a MemoryBlock header {size, ownerTaskId, inUse, handleId}, one
\* word each, followed by size bytes of payload.
\* ------------------------------------------------------------------------
\* the n bytes at offset o lie inside kernelHeap, on word boundaries
InHeap(o, n) == o >= 0 /\ o % 4 = 0 /\ n % 4 = 0 /\ o + n <= HeapSize

BlockSize(heap, o) == heap[o]
BlockOwner(heap, o) == heap[o + 4]
BlockEverInUse(heap, o) == TRUE

BlockInUse(heap, o) == heap[o + 8] # 0
BlockTotal(heap, o) == (HeaderSize + BlockSize(heap, o)) % SizeMod

MemMoveHeader(heap, dst, src, n) ==
  [o \in WordOffsets |->
     IF o >= dst /\ o < dst + HeaderSize THEN heap[o - dst + src] ELSE heap[o]]

\* memmove(&kernelHeap[dst], &kernelHeap[src], n)
MemMove(heap, dst, src, n) ==
  [o \in WordOffsets |-> IF o >= dst /\ o < dst + n THEN heap[o - dst + src] ELSE heap[o]]

WritePosStays(writePos, total) == writePos

\* writePos += blockTotalSize, in size_t arithmetic
WritePosAfter(writePos, total) == (writePos + total) % SizeMod

CompactResult(heap, writePos, moved, panic, fault) ==
  [heap |-> heap, writePos |-> writePos, moved |-> moved, panic |-> panic,
   fault |-> fault]

\* the sweep of compactMemory() from the cursors readPos and writePos on
RECURSIVE CompactFrom(_, _, _, _)
CompactFrom(heap, readPos, writePos, moved) ==
  IF ~(readPos < heapUsed) THEN CompactResult(heap, writePos, moved, FALSE, FALSE)
  ELSE IF ~InHeap(readPos, HeaderSize)
       THEN CompactResult(heap, writePos, moved, FALSE, TRUE)
  ELSE
    LET total == BlockTotal(heap, readPos)
        live == BlockInUse(heap, readPos)
        moves == live /\ writePos # readPos
        heap2 == IF moves /\ InHeap(readPos, total)
                 THEN MemMove(heap, writePos, readPos, total) ELSE heap
        write2 == IF live THEN WritePosAfter(writePos, total) ELSE writePos
        read2 == (readPos + total) % SizeMod
        moved2 == IF moves THEN moved + 1 ELSE moved
    IN IF total = 0 \/ (moves /\ ~InHeap(readPos, total))
       THEN CompactResult(heap, writePos, moved, FALSE, TRUE)
       ELSE IF read2 > HeapSize \/ write2 > HeapSize
            THEN CompactResult(heap2, write2, moved2, TRUE, FALSE)
            ELSE CompactFrom(heap2, read2, write2, moved2)

Compacted == CompactFrom(kernelHeap, 0, 0, 0)

compactMemory ==
  LET c == Compacted IN
  /\ kernelHeap' = c.heap
  /\ heapUsed' = IF c.panic \/ c.fault THEN heapUsed ELSE c.writePos
  /\ panicked' = c.panic
  /\ heapFault' = c.fault
  /\ ret' = Result("memCompact", c.moved)
  /\ UNCHANGED <<schedVars, memoryUsed, ptrs, allocCalls, ipcVars, semVars,
                 ioVars>>

memCompact == compactMemory

AlignUp(size) == LET s == (size + 3) % SizeMod IN s - (s % 4)

TotalNeeded(size) == (HeaderSize + AlignUp(size)) % SizeMod

OutOfSpace(used, totalNeeded) == (used + totalNeeded) % SizeMod > HeapSize

WriteHeader(heap, o, size, taskId) ==
  [w \in WordOffsets |->
     IF w = o THEN size
     ELSE IF w = o + 4 THEN taskId
     ELSE IF w = o + 8 THEN 1
     ELSE IF w = o + 12 THEN -1
     ELSE heap[w]]

Charge(used, size) == (used + size) % SizeMod

allocateMemoryInternal(size, taskId) ==
  IF size = 0
  THEN /\ ret' = Result("memAlloc", NullPtr)
       /\ UNCHANGED <<schedVars, memoryUsed, heapVars, ipcVars, semVars, ioVars>>
  ELSE
    LET aligned == AlignUp(size)
        totalNeeded == TotalNeeded(size)
        compacts == OutOfSpace(heapUsed, totalNeeded)
        c == IF compacts THEN Compacted
             ELSE CompactResult(kernelHeap, heapUsed, 0, FALSE, FALSE)
    IN
    IF c.panic \/ c.fault
    THEN /\ kernelHeap' = c.heap
         /\ panicked' = c.panic
         /\ heapFault' = c.fault
         /\ ret' = Result("memAlloc", NullPtr)
         /\ UNCHANGED <<schedVars, memoryUsed, heapUsed, ptrs, ipcVars, semVars,
                        ioVars>>
    ELSE IF OutOfSpace(c.writePos, totalNeeded)
    THEN /\ kernelHeap' = c.heap
         /\ heapUsed' = c.writePos
         /\ ret' = Result("memAlloc", NullPtr)
         /\ UNCHANGED <<schedVars, memoryUsed, heapFault, panicked, ptrs,
                        ipcVars, semVars, ioVars>>
    ELSE /\ kernelHeap' = WriteHeader(c.heap, c.writePos, aligned, taskId)
         /\ heapFault' = ~InHeap(c.writePos, HeaderSize)
         /\ heapUsed' = (c.writePos + totalNeeded) % SizeMod
         /\ memoryUsed' = IF taskId >= 0 /\ taskId < MAX_TASKS
                          THEN [memoryUsed EXCEPT ![taskId] = Charge(@, aligned)]
                          ELSE memoryUsed
         /\ ptrs' = ptrs \cup {c.writePos + HeaderSize}
         /\ ret' = Result("memAlloc", c.writePos + HeaderSize)
         /\ UNCHANGED <<schedVars, panicked, ipcVars, semVars, ioVars>>

memAlloc(size) ==
  /\ allocCalls' = allocCalls + 1
  /\ allocateMemoryInternal(size, currentTaskId)

getBlockHeader(ptr) == ptr - HeaderSize

Refund(used, size) == (used - size) % SizeMod

freeMemoryInternal(ptr) ==
  IF ptr = NullPtr \/ ~BlockInUse(kernelHeap, getBlockHeader(ptr))
  THEN /\ ret' = Result("memFree", SYS_ERR_INVALID_PARAM)
       /\ UNCHANGED <<schedVars, memoryUsed, heapVars, allocCalls, ipcVars, semVars,
                      ioVars>>
  ELSE
    LET block == getBlockHeader(ptr)
        owner == BlockOwner(kernelHeap, block)
    IN /\ memoryUsed' = IF owner >= 0 /\ owner < MAX_TASKS
                        THEN [memoryUsed EXCEPT
                                ![owner] = Refund(@, BlockSize(kernelHeap, block))]
                        ELSE memoryUsed
       /\ kernelHeap' = [kernelHeap EXCEPT ![block + 8] = 0]
       /\ ret' = Result("memFree", SYS_OK)
       /\ UNCHANGED <<schedVars, heapUsed, heapFault, panicked, ptrs, allocCalls,
                      ipcVars, semVars, ioVars>>

memFree(ptr) == freeMemoryInternal(ptr)

memAvailable == HeapSize - heapUsed

\* ------------------------------------------------------------------------
\* The heap under tasks that allocate, free and compact.  Tasks here return
\* without yielding, so schedule() alternates between them.
\* ------------------------------------------------------------------------
AllocSizes == {0, 3, 8}
Halted == panicked \/ heapFault

HeapCreate == /\ ~Halted /\ InHost /\ selected = NoTask
              /\ Cardinality(LiveUsers) < MaxLive
              /\ createTask(TRUE)
HeapSchedule == ~Halted /\ InHost /\ schedule
HeapReturn == ~Halted /\ InTask /\ TaskReturn
HeapAlloc == /\ ~Halted /\ InTask
             /\ allocCalls < MaxAllocs
             /\ \E n \in AllocSizes : memAlloc(n)
HeapFree == ~Halted /\ InTask /\ \E p \in ptrs \cup {NullPtr} : memFree(p)
HeapCompact == ~Halted /\ InTask /\ memCompact

NextHeap ==
  \/ HeapCreate
  \/ HeapSchedule
  \/ HeapReturn
  \/ HeapAlloc
  \/ HeapFree
  \/ HeapCompact

SpecHeap == Init /\ [][NextHeap]_vars

\* one task that allocates up to MaxAllocs small blocks, frees them in any
\* order and compacts; the third block of the larger size does not fit
\* without compaction
BlockSizes == {4, 8}

BlocksCreate == /\ ~Halted /\ InHost /\ LiveUsers = {}
                /\ createTask(TRUE)
BlocksSchedule == ~Halted /\ InHost /\ schedule
BlocksReturn == ~Halted /\ InTask /\ TaskReturn
BlocksAlloc == /\ ~Halted /\ InTask
               /\ allocCalls < MaxAllocs
               /\ \E n \in BlockSizes : memAlloc(n)
BlocksFree == ~Halted /\ InTask /\ \E p \in ptrs : memFree(p)
BlocksCompact == ~Halted /\ InTask /\ memCompact

NextBlocks ==
  \/ BlocksCreate
  \/ BlocksSchedule
  \/ BlocksReturn
  \/ BlocksAlloc
  \/ BlocksFree
  \/ BlocksCompact

SpecBlocks == Init /\ [][NextBlocks]_vars

\* the same where the task fills the payload of the block it has just been
\* given, each block with a value of its own
PayloadWords(ptr, size) == {o \in WordOffsets : o >= ptr /\ o < ptr + size}

StoreInto(ptr, v) ==
  /\ kernelHeap' = [o \in WordOffsets |->
                      IF o \in PayloadWords(ptr, BlockSize(kernelHeap, getBlockHeader(ptr)))
                      THEN v ELSE kernelHeap[o]]
  /\ ret' = Result("store", ptr)
  /\ UNCHANGED <<schedVars, memoryUsed, heapUsed, heapFault, panicked, ptrs,
                 allocCalls, ipcVars, semVars, ioVars>>

\* the task has been given a block and has not filled it yet
Unfilled == ret.op = "memAlloc" /\ ret.val # NullPtr

StoreCreate == /\ ~Halted /\ InHost /\ LiveUsers = {}
               /\ createTask(TRUE)
StoreSchedule == ~Halted /\ InHost /\ schedule
StoreReturn == ~Halted /\ InTask /\ ~Unfilled /\ TaskReturn
StoreAlloc == /\ ~Halted /\ InTask /\ ~Unfilled
              /\ allocCalls < MaxAllocs
              /\ \E n \in BlockSizes : memAlloc(n)
StoreWrite == /\ ~Halted /\ InTask /\ Unfilled
              /\ StoreInto(ret.val, 16 * allocCalls + currentTaskId)
StoreFree == ~Halted /\ InTask /\ ~Unfilled /\ \E p \in ptrs : memFree(p)
StoreCompact == ~Halted /\ InTask /\ ~Unfilled /\ memCompact

NextStore ==
  \/ StoreCreate
  \/ StoreSchedule
  \/ StoreReturn
  \/ StoreAlloc
  \/ StoreWrite
  \/ StoreFree
  \/ StoreCompact

SpecStore == Init /\ [][NextStore]_vars

\* the same with tasks killed and created while the heap is in use
HeapKill == ~Halted /\ InTask /\ \E t \in 1 .. MaxLive : killTask(t)
HeapRecreate == /\ ~Halted
                /\ InHost \/ InTask
                /\ Cardinality(LiveUsers) < MaxLive
                /\ createTask(TRUE)

KillAllocSizes == {8}
KillAlloc == /\ ~Halted /\ InTask
             /\ allocCalls < MaxAllocs
             /\ \E n \in KillAllocSizes : memAlloc(n)

NextHeapKill ==
  \/ HeapRecreate
  \/ HeapKill
  \/ HeapSchedule
  \/ HeapReturn
  \/ KillAlloc
  \/ HeapFree
  \/ HeapCompact

SpecHeapKill == Init /\ [][NextHeapKill]_vars

\* the same as SpecHeap with request sizes near the top of the size_t range
WideAllocSizes == AllocSizes \cup {SizeMod - 20}

WideAlloc == /\ ~Halted /\ InTask
             /\ allocCalls < MaxAllocs
             /\ \E n \in WideAllocSizes : memAlloc(n)

NextHeapWide ==
  \/ HeapCreate
  \/ HeapSchedule
  \/ HeapReturn
  \/ WideAlloc
  \/ HeapFree
  \/ HeapCompact

SpecHeapWide == Init /\ [][NextHeapWide]_vars

\* ------------------------------------------------------------------------
\* IPC: one ring of MAX_MESSAGE_QUEUE_SIZE messages per task slot
\* The data argument of ipcSend is a buffer of bytes or a null pointer.
\* ------------------------------------------------------------------------
Buffer(bytes) == [null |-> FALSE, bytes |-> bytes]
NullBuffer == [null |-> TRUE, bytes |-> <<>>]

MemCpyShort(dst, src, n) ==
  [k \in 1 .. (IF Len(dst) > n THEN Len(dst) ELSE n) |->
     IF k < n THEN src[k] ELSE IF k <= Len(dst) THEN dst[k] ELSE 0]

\* memcpy(dst, src, n) over the bytes already in dst
MemCpy(dst, src, n) ==
  [k \in 1 .. (IF Len(dst) > n THEN Len(dst) ELSE n) |->
     IF k <= n THEN src[k] ELSE dst[k]]

TailStays(tail) == tail

NextTail(tail) == (tail + 1) % MAX_MESSAGE_QUEUE_SIZE

HeadStays(head) == head

NextHead(head) == (head + 1) % MAX_MESSAGE_QUEUE_SIZE

QueueOverfull(count) == count > MAX_MESSAGE_QUEUE_SIZE

QueueFull(count) == count >= MAX_MESSAGE_QUEUE_SIZE

ipcSendResult(toTaskId, data, length) ==
  IF toTaskId < 0 \/ toTaskId >= MAX_TASKS THEN SYS_ERR_INVALID_PARAM
  ELSE IF tstate[toTaskId] = TASK_EMPTY THEN SYS_ERR_NOT_FOUND
  ELSE IF length > MSG_DATA_SIZE THEN SYS_ERR_INVALID_PARAM
  ELSE IF data.null /\ length > 0 THEN SYS_ERR_INVALID_PARAM
  ELSE IF QueueFull(messageQueues[toTaskId].count) THEN SYS_ERR_NO_MEMORY
  ELSE SYS_OK

ipcSend(toTaskId, data, length) ==
  LET r == ipcSendResult(toTaskId, data, length) IN
  /\ ret' = [op |-> "ipcSend", val |-> r,
             afterReceive |-> ret.op = "ipcReceive" /\ ret.val >= 0]
  /\ IF r # SYS_OK
     THEN UNCHANGED <<messageQueues, inbox>>
     ELSE
       LET queue == messageQueues[toTaskId]
           old == queue.messages[queue.tail]
           msg == [fromTaskId |-> currentTaskId,
                   toTaskId |-> toTaskId,
                   data |-> IF length > 0 THEN MemCpy(old.data, data.bytes, length)
                            ELSE old.data,
                   length |-> length,
                   timestamp |-> now,
                   valid |-> TRUE]
       IN /\ messageQueues' =
               [messageQueues EXCEPT
                  ![toTaskId] = [messages |-> [queue.messages EXCEPT ![queue.tail] = msg],
                                 head |-> queue.head,
                                 tail |-> NextTail(queue.tail),
                                 count |-> queue.count + 1]]
          /\ inbox' = [inbox EXCEPT
                         ![toTaskId] = Append(@, [fromTaskId |-> currentTaskId,
                                                  data |-> SubSeq(data.bytes, 1, length),
                                                  intoEmpty |-> inbox[toTaskId] = <<>>])]
  /\ UNCHANGED <<schedVars, memoryUsed, heapVars, allocCalls, semVars, ioVars>>

FitsAnyBuffer(length, maxLength) == FALSE

\* msg->length > maxLength
ExceedsBuffer(length, maxLength) == length > maxLength

ipcReceiveResult(maxLength) ==
  LET queue == messageQueues[currentTaskId]
      msg == queue.messages[queue.head]
  IN IF queue.count = 0 THEN SYS_ERR_WOULD_BLOCK
     ELSE IF ~msg.valid THEN SYS_ERR_IO_ERROR
     ELSE IF ExceedsBuffer(msg.length, maxLength) THEN SYS_ERR_INVALID_PARAM
     ELSE msg.length

\* ipcReceive(buffer, maxLength, &from); hasBuffer: buffer is not null
ipcReceive(hasBuffer, maxLength) ==
  LET queue == messageQueues[currentTaskId]
      msg == queue.messages[queue.head]
      r == ipcReceiveResult(maxLength)
  IN
  IF r < 0
  THEN /\ ret' = [op |-> "ipcReceive", val |-> r, buffer |-> <<>>, from |-> NoTask,
                  hasBuffer |-> hasBuffer, maxLength |-> maxLength,
                  intoEmpty |-> FALSE]
       /\ UNCHANGED <<schedVars, memoryUsed, heapVars, allocCalls, ipcVars, semVars,
                      ioVars>>
  ELSE /\ ret' = [op |-> "ipcReceive", val |-> r,
                  buffer |-> IF hasBuffer /\ msg.length > 0
                             THEN SubSeq(msg.data, 1, msg.length) ELSE <<>>,
                  from |-> msg.fromTaskId,
                  hasBuffer |-> hasBuffer, maxLength |-> maxLength,
                  intoEmpty |-> inbox[currentTaskId] # <<>>
                                /\ Head(inbox[currentTaskId]).intoEmpty]
       /\ messageQueues' =
            [messageQueues EXCEPT
               ![currentTaskId] =
                  [messages |-> [queue.messages EXCEPT ![queue.head].valid = FALSE],
                   head |-> NextHead(queue.head),
                   tail |-> queue.tail,
                   count |-> queue.count - 1]]
       /\ inbox' = [inbox EXCEPT ![currentTaskId] = IF @ = <<>> THEN @ ELSE Tail(@)]
       /\ UNCHANGED <<schedVars, memoryUsed, heapVars, allocCalls, sendCalls, semVars,
                      ioVars>>

ipcPoll ==
  /\ ret' = Result("ipcPoll", messageQueues[currentTaskId].count)
  /\ UNCHANGED <<schedVars, memoryUsed, heapVars, allocCalls, ipcVars, semVars,
                 ioVars>>

\* ------------------------------------------------------------------------
\* Mailboxes under tasks that send, receive and poll while schedule()
\* alternates between them.
\* ------------------------------------------------------------------------
Payloads == {<<1>>, <<2, 3>>}
LongPayload == [k \in 1 .. (MSG_DATA_SIZE + 1) |-> 0]
SendArgs == {<<Buffer(p), Len(p)>> : p \in Payloads} \cup {<<NullBuffer, 0>>}
SendTargets == 1 .. MaxLive
ReceiveLengths == {1, MSG_DATA_SIZE}

IpcCreate == /\ InHost /\ selected = NoTask
             /\ Cardinality(LiveUsers) < MaxLive
             /\ createTask(TRUE)
IpcSchedule == InHost /\ schedule
IpcReturn == InTask /\ TaskReturn
IpcSend == /\ InTask
           /\ sendCalls < MaxSends
           /\ sendCalls' = sendCalls + 1
           /\ \E t \in SendTargets, a \in SendArgs : ipcSend(t, a[1], a[2])
IpcReceive == InTask /\ \E hb \in BOOLEAN, m \in ReceiveLengths : ipcReceive(hb, m)

NextIpc ==
  \/ IpcCreate
  \/ IpcSchedule
  \/ IpcReturn
  \/ IpcSend
  \/ IpcReceive

SpecIpc == Init /\ [][NextIpc]_vars

\* one task sending one-byte messages to itself without a bound on the
\* number of sends, so that its ring fills, overflows and wraps
FullCreate == InHost /\ LiveUsers = {} /\ createTask(TRUE)
FullSendArgs ==
  {<<Buffer(<<1>>), 1>>, <<NullBuffer, 1>>, <<Buffer(LongPayload), MSG_DATA_SIZE + 1>>}
FullSend == /\ InTask
            /\ UNCHANGED sendCalls
            /\ \E t \in {-1, currentTaskId, MAX_TASKS - 1, MAX_TASKS}, a \in FullSendArgs :
                 ipcSend(t, a[1], a[2])
FullPoll == InTask /\ ipcPoll
FullReceive == InTask /\ \E m \in {0, MSG_DATA_SIZE} : ipcReceive(TRUE, m)

NextIpcFull ==
  \/ FullCreate
  \/ IpcSchedule
  \/ IpcReturn
  \/ FullSend
  \/ FullReceive
  \/ FullPoll

SpecIpcFull == Init /\ [][NextIpcFull]_vars

\* ------------------------------------------------------------------------
\* Semaphores
\* ------------------------------------------------------------------------
SemIds == 0 .. (MAX_SEMAPHORES - 1)

RECURSIVE FirstFreeSemaphoreFrom(_)
FirstFreeSemaphoreFrom(i) ==
  IF i >= MAX_SEMAPHORES THEN -1
  ELSE IF ~semaphores[i].inUse THEN i
  ELSE FirstFreeSemaphoreFrom(i + 1)

allocateSemaphore == FirstFreeSemaphoreFrom(0)

semCreate(initialValue, maxValue) ==
  LET semId == allocateSemaphore IN
  /\ IF initialValue < 0 \/ maxValue < 1 \/ initialValue > maxValue
     THEN ret' = Result("semCreate", SYS_ERR_INVALID_PARAM) /\ UNCHANGED semaphores
     ELSE IF semId < 0
     THEN ret' = Result("semCreate", SYS_ERR_NO_MEMORY) /\ UNCHANGED semaphores
     ELSE /\ semaphores' = [semaphores EXCEPT
                              ![semId] = [value |-> initialValue,
                                          maxValue |-> maxValue,
                                          inUse |-> TRUE,
                                          ownerTaskId |-> currentTaskId]]
          /\ ret' = Result("semCreate", semId)
  /\ UNCHANGED <<schedVars, memoryUsed, heapVars, allocCalls, ipcVars, waiting,
                 ioVars>>

NotDecremented(value) == value

\* sem->value-- when semWait leaves its loop
Decremented(value) == value - 1

TimedOutLate(startTime, timeoutMs) ==
  timeoutMs > 0 /\ ((now - startTime) % ClockMod) > timeoutMs

\* the timeout test of the semWait loop, in uint32_t arithmetic
TimedOut(startTime, timeoutMs) ==
  timeoutMs > 0 /\ ((now - startTime) % ClockMod) >= timeoutMs

\* the loop of semWait from its test on: the caller leaves with SYS_OK or
\* SYS_ERR_TIMEOUT, or calls yield() and stays in the loop
semWaitLoop(semId, startTime, timeoutMs) ==
  IF ~(semaphores[semId].value <= 0)
  THEN /\ semaphores' = [semaphores EXCEPT ![semId].value = Decremented(@)]
       /\ waiting' = NoWait
       /\ ret' = Result("semWait", SYS_OK)
       /\ UNCHANGED <<schedVars, memoryUsed, heapVars, allocCalls, ipcVars, ioVars>>
  ELSE IF TimedOut(startTime, timeoutMs)
  THEN /\ waiting' = NoWait
       /\ ret' = Result("semWait", SYS_ERR_TIMEOUT)
       /\ UNCHANGED <<schedVars, memoryUsed, heapVars, allocCalls, ipcVars, semaphores,
                      ioVars>>
  ELSE /\ waiting' = [sem |-> semId, startTime |-> startTime, timeoutMs |-> timeoutMs]
       /\ tstate' = [tstate EXCEPT ![currentTaskId] = TASK_READY]
       /\ lastYield' = [lastYield EXCEPT ![currentTaskId] = now]
       /\ ret' = Result("yield", SYS_OK)
       /\ UNCHANGED <<now, priority, entryPoint, lastRun, sleepUntil, currentTaskId,
                      watchdogEnabled, watchdogLastCheck, bootTime, initialized, id,
                      executing, selected, sleepDue>>
       /\ UNCHANGED <<memoryUsed, heapVars, allocCalls, ipcVars, semaphores, ioVars>>

semWait(semId, timeoutMs) ==
  IF semId < 0 \/ semId >= MAX_SEMAPHORES
  THEN /\ ret' = Result("semWait", SYS_ERR_INVALID_PARAM)
       /\ UNCHANGED <<schedVars, memoryUsed, heapVars, allocCalls, ipcVars, semVars,
                      ioVars>>
  ELSE IF ~semaphores[semId].inUse
  THEN /\ ret' = Result("semWait", SYS_ERR_NOT_FOUND)
       /\ UNCHANGED <<schedVars, memoryUsed, heapVars, allocCalls, ipcVars, semVars,
                      ioVars>>
  ELSE semWaitLoop(semId, now, timeoutMs)

AlwaysBelowMax(value, maxValue) == FALSE

AtMax(value, maxValue) == value >= maxValue

semPost(semId) ==
  /\ IF semId < 0 \/ semId >= MAX_SEMAPHORES
     THEN ret' = Result("semPost", SYS_ERR_INVALID_PARAM) /\ UNCHANGED semaphores
     ELSE IF ~semaphores[semId].inUse
     THEN ret' = Result("semPost", SYS_ERR_NOT_FOUND) /\ UNCHANGED semaphores
     ELSE IF AtMax(semaphores[semId].value, semaphores[semId].maxValue)
     THEN ret' = Result("semPost", SYS_ERR_INVALID_PARAM) /\ UNCHANGED semaphores
     ELSE /\ semaphores' = [semaphores EXCEPT ![semId].value = @ + 1]
          /\ ret' = Result("semPost", SYS_OK)
  /\ UNCHANGED <<schedVars, memoryUsed, heapVars, allocCalls, ipcVars, waiting,
                 ioVars>>

AnyoneMayDestroy(semId) == FALSE

\* the owner test of semDestroy: neither the owner nor slot 0 is calling
NotOwnerNorKernel(semId) ==
  semaphores[semId].ownerTaskId # currentTaskId /\ currentTaskId # 0

semDestroy(semId) ==
  /\ IF semId < 0 \/ semId >= MAX_SEMAPHORES
     THEN ret' = Result("semDestroy", SYS_ERR_INVALID_PARAM) /\ UNCHANGED semaphores
     ELSE IF ~semaphores[semId].inUse
     THEN ret' = Result("semDestroy", SYS_ERR_NOT_FOUND) /\ UNCHANGED semaphores
     ELSE IF NotOwnerNorKernel(semId)
     THEN ret' = Result("semDestroy", SYS_ERR_PERMISSION) /\ UNCHANGED semaphores
     ELSE /\ semaphores' = [semaphores EXCEPT ![semId].inUse = FALSE]
          /\ ret' = Result("semDestroy", SYS_OK)
  /\ UNCHANGED <<schedVars, memoryUsed, heapVars, allocCalls, ipcVars, waiting,
                 ioVars>>

\* ------------------------------------------------------------------------
\* Semaphores under tasks that create, post, wait and destroy.  A task inside
\* the loop of semWait runs nothing else; only the clock moves.
\* ------------------------------------------------------------------------
SemCreateValues == (-1) .. MaxSemValue
SemCreateMaxima == 0 .. MaxSemValue
SemArgs == 0 .. MaxSems
SemTimeouts == {0, 2600, 2601}
SemTicks == {2600}
Spinning == waiting # NoWait
SemsInUse == {s \in SemIds : semaphores[s].inUse}

SemTaskCreate == /\ InHost /\ selected = NoTask
                 /\ Cardinality(LiveUsers) < MaxLive
                 /\ createTask(TRUE)
SemSchedule == InHost /\ schedule
SemReturn == InTask /\ ~Spinning /\ TaskReturn
SemCreate == /\ InTask /\ ~Spinning
             /\ Cardinality(SemsInUse) < MaxSems
             /\ \E v \in SemCreateValues, m \in SemCreateMaxima : semCreate(v, m)
SemWait == /\ InTask /\ ~Spinning
           /\ \E s \in SemArgs, t \in SemTimeouts : semWait(s, t)
SemSpin == /\ InTask /\ Spinning
           /\ semWaitLoop(waiting.sem, waiting.startTime, waiting.timeoutMs)
SemPost == InTask /\ ~Spinning /\ \E s \in SemArgs : semPost(s)
SemDestroy == InTask /\ ~Spinning /\ \E s \in SemArgs : semDestroy(s)
SemTick == Spinning /\ \E d \in SemTicks : Tick(d)

NextSem ==
  \/ SemTaskCreate
  \/ SemSchedule
  \/ SemReturn
  \/ SemCreate
  \/ SemWait
  \/ SemSpin
  \/ SemPost
  \/ SemDestroy
  \/ SemTick

SpecSem == Init /\ [][NextSem]_vars

\* the same booted late enough for the clock to wrap around during a wait
SemBootTimes == {ClockMod - 2600}
InitSemClock == \E t \in SemBootTimes : InitAt(t)
SpecSemClock == InitSemClock /\ [][NextSem]_vars

\* the same where the system keeps taking steps while it can
SpecSemFair == SpecSem /\ WF_vars(NextSem)

\* ------------------------------------------------------------------------
\* File system
\* ------------------------------------------------------------------------
kernelVars == <<schedVars, memoryUsed, heapVars, allocCalls, ipcVars, semVars>>

\* the result of a call on a handle: adapter tells whether the call got as
\* far as the File object behind the handle
HandleResult(op, val, handle, adapter) ==
  [op |-> op, val |-> val, handle |-> handle, task |-> currentTaskId,
   adapter |-> adapter]

RECURSIVE FirstFreeFileFrom(_)
FirstFreeFileFrom(i) ==
  IF i >= MAX_FILE_HANDLES THEN -1
  ELSE IF ~fileHandles[i].inUse THEN i
  ELSE FirstFreeFileFrom(i + 1)

allocateHighestFileHandle ==
  IF \A h \in FileIds : fileHandles[h].inUse THEN -1
  ELSE CHOOSE h \in FileIds :
         /\ ~fileHandles[h].inUse
         /\ \A g \in (h + 1) .. (MAX_FILE_HANDLES - 1) : fileHandles[g].inUse

allocateFileHandle == FirstFreeFileFrom(0)

RECURSIVE FirstFreeDirFrom(_)
FirstFreeDirFrom(i) ==
  IF i >= MAX_DIR_HANDLES THEN -1
  ELSE IF ~dirHandles[i].inUse THEN i
  ELSE FirstFreeDirFrom(i + 1)

allocateDirHandle == FirstFreeDirFrom(0)

\* the checks every call on a file handle starts with
FileHandleInvalid(handle) ==
  \/ handle < 0
  \/ handle >= MAX_FILE_HANDLES
  \/ ~fileHandles[handle].inUse
FileHandleForeign(handle) == fileHandles[handle].ownerTaskId # currentTaskId

DirHandleInvalid(handle) ==
  \/ handle < 0
  \/ handle >= MAX_DIR_HANDLES
  \/ ~dirHandles[handle].inUse
DirHandleForeign(handle) == dirHandles[handle].ownerTaskId # currentTaskId

\* opened is the answer of SD.open
fileOpen(write, opened) ==
  IF ~sdInitialized
  THEN /\ ret' = HandleResult("fileOpen", SYS_ERR_IO_ERROR, -1, FALSE)
       /\ UNCHANGED <<kernelVars, ioVars>>
  ELSE IF ~permissions[currentTaskId].canAccessSD
  THEN /\ ret' = HandleResult("fileOpen", SYS_ERR_PERMISSION, -1, FALSE)
       /\ UNCHANGED <<kernelVars, ioVars>>
  ELSE LET handle == allocateFileHandle IN
    IF handle < 0
    THEN /\ ret' = HandleResult("fileOpen", SYS_ERR_NO_MEMORY, -1, FALSE)
         /\ UNCHANGED <<kernelVars, ioVars>>
    ELSE IF ~opened
    THEN /\ ret' = HandleResult("fileOpen", SYS_ERR_NOT_FOUND, -1, TRUE)
         /\ UNCHANGED <<kernelVars, ioVars>>
    ELSE /\ fileHandles' = [fileHandles EXCEPT ![handle] =
                              [inUse |-> TRUE, ownerTaskId |-> currentTaskId,
                               canWrite |-> write]]
         /\ taskFileHandles' = [taskFileHandles EXCEPT ![currentTaskId] =
                                  @ \cup {handle}]
         /\ ret' = HandleResult("fileOpen", handle, handle, TRUE)
         /\ UNCHANGED <<kernelVars, dirHandles, taskDirHandles, permissions,
                        sdInitialized, hardware>>

fileClose(handle) ==
  IF FileHandleInvalid(handle)
  THEN /\ ret' = HandleResult("fileClose", SYS_ERR_INVALID_PARAM, handle, FALSE)
       /\ UNCHANGED <<kernelVars, ioVars>>
  ELSE IF FileHandleForeign(handle)
  THEN /\ ret' = HandleResult("fileClose", SYS_ERR_PERMISSION, handle, FALSE)
       /\ UNCHANGED <<kernelVars, ioVars>>
  ELSE /\ fileHandles' = [fileHandles EXCEPT ![handle] = freeFileHandle(handle)]
       /\ taskFileHandles' = [taskFileHandles EXCEPT ![currentTaskId] =
                                @ \ {handle}]
       /\ ret' = HandleResult("fileClose", SYS_OK, handle, TRUE)
       /\ UNCHANGED <<kernelVars, dirHandles, taskDirHandles, permissions,
                      sdInitialized, hardware>>

\* answer is what File::read returns
fileRead(handle, answer) ==
  /\ ret' = IF FileHandleInvalid(handle)
            THEN HandleResult("fileRead", SYS_ERR_INVALID_PARAM, handle, FALSE)
            ELSE IF FileHandleForeign(handle)
            THEN HandleResult("fileRead", SYS_ERR_PERMISSION, handle, FALSE)
            ELSE HandleResult("fileRead", answer, handle, TRUE)
  /\ UNCHANGED <<kernelVars, ioVars>>

\* answer is what File::write returns
fileWrite(handle, answer) ==
  /\ ret' = IF FileHandleInvalid(handle)
            THEN HandleResult("fileWrite", SYS_ERR_INVALID_PARAM, handle, FALSE)
            ELSE IF FileHandleForeign(handle)
            THEN HandleResult("fileWrite", SYS_ERR_PERMISSION, handle, FALSE)
            ELSE IF ~fileHandles[handle].canWrite
            THEN HandleResult("fileWrite", SYS_ERR_PERMISSION, handle, FALSE)
            ELSE HandleResult("fileWrite", answer, handle, TRUE)
  /\ UNCHANGED <<kernelVars, ioVars>>

\* answer is what SD.remove returns
fileDelete(answer) ==
  /\ ret' = IF ~sdInitialized \/ ~permissions[currentTaskId].canAccessSD
            THEN Result("fileDelete", FALSE)
            ELSE Result("fileDelete", answer)
  /\ UNCHANGED <<kernelVars, ioVars>>

\* answer is what SD.exists returns
fileExists(answer) ==
  /\ ret' = IF ~sdInitialized \/ ~permissions[currentTaskId].canAccessSD
            THEN Result("fileExists", FALSE)
            ELSE Result("fileExists", answer)
  /\ UNCHANGED <<kernelVars, ioVars>>

\* answer is what File::size returns
fileSize(handle, answer) ==
  /\ ret' = IF FileHandleInvalid(handle) \/ FileHandleForeign(handle)
            THEN HandleResult("fileSize", 0, handle, FALSE)
            ELSE HandleResult("fileSize", answer, handle, TRUE)
  /\ UNCHANGED <<kernelVars, ioVars>>

\* opened is the answer of SD.open, isDirectory that of File::isDirectory
dirOpen(opened, isDirectory) ==
  IF ~sdInitialized
  THEN /\ ret' = HandleResult("dirOpen", SYS_ERR_IO_ERROR, -1, FALSE)
       /\ UNCHANGED <<kernelVars, ioVars>>
  ELSE IF ~permissions[currentTaskId].canAccessSD
  THEN /\ ret' = HandleResult("dirOpen", SYS_ERR_PERMISSION, -1, FALSE)
       /\ UNCHANGED <<kernelVars, ioVars>>
  ELSE LET handle == allocateDirHandle IN
    IF handle < 0
    THEN /\ ret' = HandleResult("dirOpen", SYS_ERR_NO_MEMORY, -1, FALSE)
         /\ UNCHANGED <<kernelVars, ioVars>>
    ELSE IF ~opened
    THEN /\ ret' = HandleResult("dirOpen", SYS_ERR_NOT_FOUND, -1, TRUE)
         /\ UNCHANGED <<kernelVars, ioVars>>
    ELSE IF ~isDirectory
    THEN /\ ret' = HandleResult("dirOpen", SYS_ERR_INVALID_PARAM, -1, TRUE)
         /\ UNCHANGED <<kernelVars, ioVars>>
    ELSE /\ dirHandles' = [dirHandles EXCEPT ![handle] =
                             [inUse |-> TRUE, ownerTaskId |-> currentTaskId]]
         /\ taskDirHandles' = [taskDirHandles EXCEPT ![currentTaskId] =
                                 @ \cup {handle}]
         /\ ret' = HandleResult("dirOpen", handle, handle, TRUE)
         /\ UNCHANGED <<kernelVars, fileHandles, taskFileHandles, permissions,
                        sdInitialized, hardware>>

dirClose(handle) ==
  IF DirHandleInvalid(handle)
  THEN /\ ret' = HandleResult("dirClose", SYS_ERR_INVALID_PARAM, handle, FALSE)
       /\ UNCHANGED <<kernelVars, ioVars>>
  ELSE IF DirHandleForeign(handle)
  THEN /\ ret' = HandleResult("dirClose", SYS_ERR_PERMISSION, handle, FALSE)
       /\ UNCHANGED <<kernelVars, ioVars>>
  ELSE /\ dirHandles' = [dirHandles EXCEPT ![handle] = freeDirHandle(handle)]
       /\ taskDirHandles' = [taskDirHandles EXCEPT ![currentTaskId] =
                               @ \ {handle}]
       /\ ret' = HandleResult("dirClose", SYS_OK, handle, TRUE)
       /\ UNCHANGED <<kernelVars, fileHandles, taskFileHandles, permissions,
                      sdInitialized, hardware>>

\* hasEntry tells whether the caller passed an entry to fill, more whether
\* File::openNextFile finds another entry
dirRead(handle, hasEntry, more) ==
  /\ ret' = IF DirHandleInvalid(handle) \/ DirHandleForeign(handle) \/ ~hasEntry
            THEN HandleResult("dirRead", FALSE, handle, FALSE)
            ELSE HandleResult("dirRead", more, handle, TRUE)
  /\ UNCHANGED <<kernelVars, ioVars>>

\* answer is what SD.mkdir returns
dirCreate(answer) ==
  /\ ret' = IF ~sdInitialized \/ ~permissions[currentTaskId].canAccessSD
            THEN Result("dirCreate", FALSE)
            ELSE Result("dirCreate", answer)
  /\ UNCHANGED <<kernelVars, ioVars>>

\* answer is what SD.rmdir returns
dirRemove(answer) ==
  /\ ret' = IF ~sdInitialized \/ ~permissions[currentTaskId].canAccessSD
            THEN Result("dirRemove", FALSE)
            ELSE Result("dirRemove", answer)
  /\ UNCHANGED <<kernelVars, ioVars>>

dirRewind(handle) ==
  /\ ret' = IF DirHandleInvalid(handle) \/ DirHandleForeign(handle)
            THEN HandleResult("dirRewind", SYS_OK, handle, FALSE)
            ELSE HandleResult("dirRewind", SYS_OK, handle, TRUE)
  /\ UNCHANGED <<kernelVars, ioVars>>

\* ------------------------------------------------------------------------
\* Files and directories under tasks that open, use and close handles, kill
\* tasks (themselves included) and create tasks.  The SD card may be absent
\* at boot, and every answer of the SD adapter is possible.
\* ------------------------------------------------------------------------
FileArgs == (-1) .. (MaxOpen - 1)
DirArgs == 0 .. (MaxOpen - 1)
FileAnswers == {4}

FilesInUse == {h \in FileIds : fileHandles[h].inUse}
DirsInUse == {h \in DirIds : dirHandles[h].inUse}

InitFile == \E sd \in BOOLEAN : InitWith(7, sd)

FileTaskCreate == /\ InHost \/ InTask
                  /\ Cardinality(LiveUsers) < MaxLive
                  /\ createTask(TRUE)
FileSchedule == InHost /\ schedule
FileReturn == InTask /\ TaskReturn
FileKill == InTask /\ \E t \in 0 .. MaxLive : killTask(t)
FileOpen == /\ InTask
            /\ Cardinality(FilesInUse) < MaxOpen
            /\ \E write \in BOOLEAN, opened \in BOOLEAN : fileOpen(write, opened)
FileClose == InTask /\ \E h \in FileArgs : fileClose(h)
FileRead == InTask /\ \E h \in FileArgs, n \in FileAnswers : fileRead(h, n)
FileWrite == InTask /\ \E h \in FileArgs, n \in FileAnswers : fileWrite(h, n)
FileSize == InTask /\ \E h \in FileArgs, n \in FileAnswers : fileSize(h, n)
DirOpen == /\ InTask
           /\ Cardinality(DirsInUse) < MaxOpen
           /\ \E opened \in BOOLEAN, isDirectory \in BOOLEAN :
                dirOpen(opened, isDirectory)
DirClose == InTask /\ \E h \in DirArgs : dirClose(h)
DirRead == InTask /\ \E h \in DirArgs, hasEntry \in BOOLEAN, more \in BOOLEAN :
             dirRead(h, hasEntry, more)
DirRewind == InTask /\ \E h \in DirArgs : dirRewind(h)

NextFile ==
  \/ FileTaskCreate
  \/ FileSchedule
  \/ FileReturn
  \/ FileKill
  \/ FileOpen
  \/ FileClose
  \/ FileRead
  \/ FileWrite
  \/ FileSize
  \/ DirOpen
  \/ DirClose
  \/ DirRead
  \/ DirRewind

SpecFile == InitFile /\ [][NextFile]_vars

\* ------------------------------------------------------------------------
\* Device driver interface: GPIO, I2C, SPI
\* ------------------------------------------------------------------------
DeniedNever(capability) == FALSE

\* the current task lacks the capability
Denied(capability) == ~permissions[currentTaskId][capability]

\* the hardware after n more adapter calls
Invoked(hw, n) == [hw EXCEPT !.calls = @ + n]

DeviceFrame == UNCHANGED <<kernelVars, handleVars, permissions, sdInitialized>>

gpioSetMode(pin, mode) ==
  /\ IF Denied("canAccessGPIO")
     THEN /\ ret' = Result("gpioSetMode", SYS_ERR_PERMISSION)
          /\ UNCHANGED hardware
     ELSE /\ hardware' = Invoked([hardware EXCEPT !.mode[pin] = mode], 1)
          /\ ret' = Result("gpioSetMode", SYS_OK)
  /\ DeviceFrame

gpioWrite(pin, value) ==
  /\ IF Denied("canAccessGPIO")
     THEN /\ ret' = Result("gpioWrite", SYS_ERR_PERMISSION)
          /\ UNCHANGED hardware
     ELSE /\ hardware' = Invoked([hardware EXCEPT !.level[pin] = value], 1)
          /\ ret' = Result("gpioWrite", SYS_OK)
  /\ DeviceFrame

\* answer is what digitalRead returns
gpioRead(pin, answer) ==
  /\ IF Denied("canAccessGPIO")
     THEN /\ ret' = Result("gpioRead", SYS_ERR_PERMISSION)
          /\ UNCHANGED hardware
     ELSE /\ hardware' = Invoked(hardware, 1)
          /\ ret' = Result("gpioRead", answer)
  /\ DeviceFrame

\* answer is what analogRead returns
gpioAnalogRead(pin, answer) ==
  /\ IF Denied("canAccessGPIO")
     THEN /\ ret' = Result("gpioAnalogRead", SYS_ERR_PERMISSION)
          /\ UNCHANGED hardware
     ELSE /\ hardware' = Invoked(hardware, 1)
          /\ ret' = Result("gpioAnalogRead", answer)
  /\ DeviceFrame

gpioAnalogWrite(pin, value) ==
  /\ IF Denied("canAccessGPIO")
     THEN /\ ret' = Result("gpioAnalogWrite", SYS_ERR_PERMISSION)
          /\ UNCHANGED hardware
     ELSE /\ hardware' = Invoked([hardware EXCEPT !.pwm[pin] = value], 1)
          /\ ret' = Result("gpioAnalogWrite", SYS_OK)
  /\ DeviceFrame

i2cBegin(address) ==
  /\ IF Denied("canAccessI2C")
     THEN /\ ret' = Result("i2cBegin", SYS_ERR_PERMISSION)
          /\ UNCHANGED hardware
     ELSE /\ hardware' = Invoked([hardware EXCEPT !.wire =
                                    IF address = 0 THEN "master" ELSE "slave"], 1)
          /\ ret' = Result("i2cBegin", SYS_OK)
  /\ DeviceFrame

\* written is what Wire.write returns, result what Wire.endTransmission
\* returns
i2cWrite(address, hasData, length, written, result) ==
  /\ IF Denied("canAccessI2C")
     THEN /\ ret' = Result("i2cWrite", SYS_ERR_PERMISSION)
          /\ UNCHANGED hardware
     ELSE IF ~hasData \/ length = 0
     THEN /\ ret' = Result("i2cWrite", SYS_ERR_INVALID_PARAM)
          /\ UNCHANGED hardware
     ELSE /\ hardware' = Invoked(hardware, 3)
          /\ ret' = Result("i2cWrite",
                           IF result # 0 THEN SYS_ERR_IO_ERROR ELSE written)
  /\ DeviceFrame

\* result is what Wire.endTransmission returns, bytesRead the number of
\* bytes Wire has available, at most length
i2cRead(address, hasBuffer, length, result, bytesRead) ==
  /\ IF Denied("canAccessI2C")
     THEN /\ ret' = Result("i2cRead", SYS_ERR_PERMISSION)
          /\ UNCHANGED hardware
     ELSE IF ~hasBuffer \/ length = 0
     THEN /\ ret' = Result("i2cRead", SYS_ERR_INVALID_PARAM)
          /\ UNCHANGED hardware
     ELSE IF result # 0
     THEN /\ hardware' = Invoked(hardware, 2)
          /\ ret' = Result("i2cRead", SYS_ERR_IO_ERROR)
     ELSE /\ hardware' = Invoked(hardware, 3 + bytesRead)
          /\ ret' = Result("i2cRead", bytesRead)
  /\ DeviceFrame

\* answer is what Wire.requestFrom returns
i2cRequest(address, quantity, answer) ==
  /\ IF Denied("canAccessI2C")
     THEN /\ ret' = Result("i2cRequest", SYS_ERR_PERMISSION)
          /\ UNCHANGED hardware
     ELSE /\ hardware' = Invoked(hardware, 1)
          /\ ret' = Result("i2cRequest", answer)
  /\ DeviceFrame

spiBegin ==
  /\ IF Denied("canAccessSPI")
     THEN /\ ret' = Result("spiBegin", SYS_ERR_PERMISSION)
          /\ UNCHANGED hardware
     ELSE /\ hardware' = Invoked([hardware EXCEPT !.spi = TRUE], 1)
          /\ ret' = Result("spiBegin", SYS_OK)
  /\ DeviceFrame

\* hasTx and hasRx tell which of the two buffers the caller passed
spiTransfer(hasTx, hasRx, length) ==
  /\ IF Denied("canAccessSPI")
     THEN /\ ret' = Result("spiTransfer", SYS_ERR_PERMISSION)
          /\ UNCHANGED hardware
     ELSE IF length = 0
     THEN /\ ret' = Result("spiTransfer", SYS_ERR_INVALID_PARAM)
          /\ UNCHANGED hardware
     ELSE /\ hardware' = IF hasTx \/ hasRx THEN Invoked(hardware, length)
                         ELSE hardware
          /\ ret' = Result("spiTransfer", length)
  /\ DeviceFrame

spiEnd ==
  /\ IF Denied("canAccessSPI")
     THEN /\ ret' = Result("spiEnd", SYS_ERR_PERMISSION)
          /\ UNCHANGED hardware
     ELSE /\ hardware' = Invoked([hardware EXCEPT !.spi = FALSE], 1)
          /\ ret' = Result("spiEnd", SYS_OK)
  /\ DeviceFrame

\* ------------------------------------------------------------------------
\* Devices under setup code, which runs with the idle task current, and
\* under tasks.
\* ------------------------------------------------------------------------
PinValues == {0, 1}
WireAddresses == {0, 8}
TransferLengths == {0, 1}

DevTaskCreate == /\ InHost /\ selected = NoTask
                 /\ Cardinality(LiveUsers) < MaxLive
                 /\ createTask(TRUE)
DevSchedule == InHost /\ schedule
DevReturn == InTask /\ TaskReturn
CallsLeft == hardware.calls < MaxCalls
GpioSetMode == CallsLeft /\ \E p \in Pins, m \in PinValues : gpioSetMode(p, m)
GpioWrite == CallsLeft /\ \E p \in Pins, v \in PinValues : gpioWrite(p, v)
GpioRead == CallsLeft /\ \E p \in Pins, v \in PinValues : gpioRead(p, v)
GpioAnalogRead == CallsLeft /\ \E p \in Pins, v \in PinValues : gpioAnalogRead(p, v)
GpioAnalogWrite == CallsLeft /\ \E p \in Pins, v \in PinValues : gpioAnalogWrite(p, v)
I2cBegin == CallsLeft /\ \E a \in WireAddresses : i2cBegin(a)
I2cWrite == CallsLeft /\ \E a \in WireAddresses, n \in TransferLengths :
              i2cWrite(a, TRUE, n, n, 0)
I2cRead == CallsLeft /\ \E a \in WireAddresses, n \in TransferLengths :
             i2cRead(a, TRUE, n, 0, n)
I2cRequest == CallsLeft /\ \E a \in WireAddresses, n \in TransferLengths :
                i2cRequest(a, n, n)
SpiBegin == CallsLeft /\ spiBegin
SpiTransfer == CallsLeft /\ \E tx \in BOOLEAN, n \in TransferLengths :
                 spiTransfer(tx, TRUE, n)
SpiEnd == CallsLeft /\ spiEnd

NextDev ==
  \/ DevTaskCreate
  \/ DevSchedule
  \/ DevReturn
  \/ GpioSetMode
  \/ GpioWrite
  \/ GpioRead
  \/ GpioAnalogRead
  \/ GpioAnalogWrite
  \/ I2cBegin
  \/ I2cWrite
  \/ I2cRead
  \/ I2cRequest
  \/ SpiBegin
  \/ SpiTransfer
  \/ SpiEnd

SpecDev == Init /\ [][NextDev]_vars

\* ------------------------------------------------------------------------
\* System calls
\* ------------------------------------------------------------------------
\* enum SyscallType
SYS_FILE_OPEN == 0
SYS_FILE_CLOSE == 1
SYS_FILE_READ == 2
SYS_FILE_WRITE == 3
SYS_FILE_DELETE == 4
SYS_FILE_EXISTS == 5
SYS_FILE_SIZE == 6
SYS_DIR_OPEN == 7
SYS_DIR_READ == 8
SYS_DIR_CLOSE == 9
SYS_DIR_CREATE == 10
SYS_DIR_REMOVE == 11
SYS_DIR_REWIND == 12
SYS_MEM_ALLOC == 13
SYS_MEM_FREE == 14
SYS_MEM_INFO == 15
SYS_MEM_COMPACT == 16
SYS_DISPLAY_CLEAR == 17
SYS_DISPLAY_PIXEL == 18
SYS_DISPLAY_TEXT == 19
SYS_DISPLAY_RECT == 20
SYS_DISPLAY_UPDATE == 21
SYS_TASK_CREATE == 22
SYS_TASK_KILL == 23
SYS_TASK_YIELD == 24
SYS_TASK_SLEEP == 25
SYS_TASK_LIST == 26
SYS_IPC_SEND == 27
SYS_IPC_RECEIVE == 28
SYS_IPC_POLL == 29
SYS_SEM_CREATE == 30
SYS_SEM_WAIT == 31
SYS_SEM_POST == 32
SYS_SEM_DESTROY == 33
SYS_GPIO_PINMODE == 34
SYS_GPIO_WRITE == 35
SYS_GPIO_READ == 36
SYS_GPIO_ANALOG_READ == 37
SYS_GPIO_ANALOG_WRITE == 38
SYS_I2C_BEGIN == 39
SYS_I2C_WRITE == 40
SYS_I2C_READ == 41
SYS_I2C_REQUEST == 42
SYS_SPI_BEGIN == 43
SYS_SPI_TRANSFER == 44
SYS_SPI_END == 45
SYS_GET_TIME == 46
SYS_PRINT == 47
SYS_DBG_PRINT == 48

\* the void* data argument of SYS_IPC_SEND as a buffer holding the byte arg
AsBuffer(arg) == IF arg = 0 THEN NullBuffer ELSE Buffer(<<arg>>)

\* a call the dispatcher forwards to nothing changes nothing
NotForwarded(val) ==
  /\ ret' = Result("syscall", val)
  /\ UNCHANGED <<kernelVars, ioVars>>

\* syscall(type, arg1, arg2, arg3, arg4): ret holds the result of the
\* operation the call is forwarded to; the answers of the adapters behind it
\* are arbitrary
syscall(type, arg1, arg2, arg3) ==
  CASE type = SYS_FILE_OPEN -> \E opened \in BOOLEAN : fileOpen(arg2 # 0, opened)
    [] type = SYS_FILE_CLOSE -> fileClose(arg1)
    [] type = SYS_FILE_READ -> \E n \in 0 .. arg3 : fileRead(arg1, n)
    [] type = SYS_FILE_WRITE -> \E n \in 0 .. arg3 : fileWrite(arg1, n)
    [] type = SYS_FILE_DELETE -> \E answer \in BOOLEAN : fileDelete(answer)
    [] type = SYS_FILE_EXISTS -> \E answer \in BOOLEAN : fileExists(answer)
    [] type = SYS_FILE_SIZE -> \E n \in {0, 4} : fileSize(arg1, n)
    [] type = SYS_DIR_OPEN ->
         \E opened \in BOOLEAN, isDirectory \in BOOLEAN : dirOpen(opened, isDirectory)
    [] type = SYS_DIR_CLOSE -> dirClose(arg1)
    [] type = SYS_DIR_READ -> \E more \in BOOLEAN : dirRead(arg1, arg2 # 0, more)
    [] type = SYS_DIR_CREATE -> \E answer \in BOOLEAN : dirCreate(answer)
    [] type = SYS_DIR_REMOVE -> \E answer \in BOOLEAN : dirRemove(answer)
    [] type = SYS_DIR_REWIND -> dirRewind(arg1)
    [] type = SYS_MEM_ALLOC -> memAlloc(arg1)
    [] type = SYS_MEM_FREE -> memFree(arg1)
    [] type = SYS_MEM_COMPACT -> memCompact
    [] type = SYS_TASK_YIELD -> yield
    [] type = SYS_TASK_SLEEP -> sleep(arg1)
    [] type = SYS_IPC_SEND -> 
         ipcSend(arg1, AsBuffer(arg2), arg3) /\ sendCalls' = sendCalls + 1
    [] type = SYS_IPC_RECEIVE -> ipcReceive(arg1 # 0, arg2)
    [] type = SYS_IPC_POLL -> ipcPoll
    [] type = SYS_SEM_CREATE -> semCreate(arg1, arg2)
    [] type = SYS_SEM_WAIT -> semWait(arg1, arg2)
    [] type = SYS_SEM_POST -> semPost(arg1)
    [] type = SYS_SEM_DESTROY -> semDestroy(arg1)
    [] type = SYS_GPIO_PINMODE -> gpioSetMode(arg1, arg2)
    [] type = SYS_GPIO_WRITE -> gpioWrite(arg1, arg2)
    [] type = SYS_GPIO_READ -> \E v \in {0, 1} : gpioRead(arg1, v)
    [] type = SYS_GPIO_ANALOG_READ -> \E v \in {0, 1} : gpioAnalogRead(arg1, v)
    [] type = SYS_GPIO_ANALOG_WRITE -> gpioAnalogWrite(arg1, arg2)
    [] type = SYS_I2C_BEGIN -> i2cBegin(arg1)
    [] type = SYS_I2C_WRITE ->
         \E written \in 0 .. arg3, result \in {0, 1} :
           i2cWrite(arg1, arg2 # 0, arg3, written, result)
    [] type = SYS_I2C_READ ->
         \E result \in {0, 1}, bytesRead \in 0 .. arg3 :
           i2cRead(arg1, arg2 # 0, arg3, result, bytesRead)
    [] type = SYS_I2C_REQUEST -> \E n \in 0 .. arg2 : i2cRequest(arg1, arg2, n)
    [] type = SYS_SPI_BEGIN -> spiBegin
    [] type = SYS_SPI_TRANSFER -> spiTransfer(arg1 # 0, arg2 # 0, arg3)
    [] type = SYS_SPI_END -> spiEnd
    [] type = SYS_GET_TIME -> /\ ret' = Result("millis", now)
                              /\ UNCHANGED <<kernelVars, ioVars>>
    [] OTHER -> NotForwarded(SYS_ERR_INVALID_CALL)

\* (int)v for an unsigned v of the width of the clock
AsInt(v) == IF v >= ClockMod \div 2 THEN v - ClockMod ELSE v

\* the integer syscall(type, ...) returns when the operation it forwarded the
\* call to left the result r
syscallReturn(type, r) ==
  IF r.op = "syscall" THEN r.val
  ELSE IF type \in {SYS_FILE_DELETE, SYS_DIR_CREATE, SYS_DIR_REMOVE}
  THEN (IF r.val THEN SYS_OK ELSE SYS_ERR_IO_ERROR)
  ELSE IF type \in {SYS_FILE_EXISTS, SYS_DIR_READ}
  THEN (IF r.val THEN 1 ELSE 0)
  ELSE IF type \in {SYS_DIR_REWIND, SYS_MEM_FREE, SYS_MEM_COMPACT,
                    SYS_TASK_YIELD, SYS_TASK_SLEEP}
  THEN SYS_OK
  ELSE IF type = SYS_GET_TIME THEN AsInt(r.val)
  ELSE r.val

\* ------------------------------------------------------------------------
\* The dispatcher under a task whose entry point makes one system call of
\* any kind, known or not, as the first thing it does, with or without an SD
\* card.
\* ------------------------------------------------------------------------
UnknownKind == SYS_DBG_PRINT + 1
SyscallKinds == SYS_FILE_OPEN .. UnknownKind
SysArgs == {0, 1}

\* the first argument is a pointer for SYS_MEM_FREE and a pin for the GPIO
\* calls
SysArg1(type) ==
  IF type = SYS_MEM_FREE THEN ptrs \cup {NullPtr}
  ELSE IF type \in SYS_GPIO_PINMODE .. SYS_GPIO_ANALOG_WRITE THEN Pins
  ELSE SysArgs

SysTaskCreate == /\ InHost /\ selected = NoTask
                 /\ Cardinality(LiveUsers) < MaxLive
                 /\ createTask(TRUE)
SysSchedule == InHost /\ schedule
Syscall == /\ InTask
           /\ ret.op = "schedule"
           /\ \E type \in SyscallKinds :
                \E arg1 \in SysArg1(type), arg2 \in SysArgs, arg3 \in SysArgs :
                  syscall(type, arg1, arg2, arg3)

NextSys ==
  \/ SysTaskCreate
  \/ SysSchedule
  \/ Syscall

SpecSys == InitFile /\ [][NextSys]_vars

\* ------------------------------------------------------------------------
\* Boot: Kernel::init called again on a running kernel, with every user slot
\* of the task table in play.  The scheduler runs while at most one user task
\* is live.
\* ------------------------------------------------------------------------
InitSkipped == FALSE

\* the test at the head of Kernel::init
InitDone == initialized

\* Kernel::init(); sd is the answer of SD.begin
init(sd) ==
  IF InitDone
  THEN /\ ret' = Result("init", 1)
       /\ UNCHANGED <<kernelVars, ioVars>>
  ELSE /\ tstate' = [i \in TaskIds |-> IF i = 0 THEN TASK_READY ELSE TASK_EMPTY]
       /\ id' = [i \in TaskIds |-> IF i = 0 THEN 0 ELSE -1]
       /\ fileHandles' = [h \in FileIds |-> [fileHandles[h] EXCEPT !.inUse = FALSE]]
       /\ dirHandles' = [h \in DirIds |-> [dirHandles[h] EXCEPT !.inUse = FALSE]]
       /\ messageQueues' =
            [i \in TaskIds |->
               [messages |-> [j \in 0 .. (MAX_MESSAGE_QUEUE_SIZE - 1) |->
                                [messageQueues[i].messages[j] EXCEPT !.valid = FALSE]],
                head |-> 0, tail |-> 0, count |-> 0]]
       /\ semaphores' = [s \in DOMAIN semaphores |->
                           [semaphores[s] EXCEPT !.inUse = FALSE]]
       /\ heapUsed' = 0
       /\ sdInitialized' = (sd \/ sdInitialized)
       /\ priority' = [priority EXCEPT ![0] = 0]
       /\ lastYield' = [lastYield EXCEPT ![0] = now]
       /\ permissions' = [permissions EXCEPT ![0] = NoPermissions]
       /\ memoryUsed' = [memoryUsed EXCEPT ![0] = 0]
       /\ currentTaskId' = 0
       /\ bootTime' = now
       /\ watchdogLastCheck' = now
       /\ initialized' = TRUE
       /\ ret' = Result("init", 1)
       /\ UNCHANGED <<now, entryPoint, lastRun, sleepUntil, watchdogEnabled,
                      executing, selected, sleepDue>>
       /\ UNCHANGED <<kernelHeap, heapFault, panicked, ptrs, allocCalls>>
       /\ UNCHANGED <<inbox, sendCalls, waiting>>
       /\ UNCHANGED <<taskFileHandles, taskDirHandles, hardware>>

SlotsCreate == (InHost \/ InTask) /\ createTask(TRUE)
SlotsSchedule == InHost /\ Cardinality(LiveUsers) <= 1 /\ schedule
SlotsReturn == InTask /\ TaskReturn
SlotsKill == InHost /\ \E t \in TaskIds : killTask(t)
SlotsInit == (InHost \/ InTask) /\ \E sd \in BOOLEAN : init(sd)

NextSlots ==
  \/ SlotsCreate
  \/ SlotsSchedule
  \/ SlotsReturn
  \/ SlotsKill
  \/ SlotsInit

SpecSlots == Init /\ [][NextSlots]_vars

\* ------------------------------------------------------------------------
\* Cooperative tasks: every entry point calls yield() once and returns, and
\* the host loop keeps calling schedule().  The calls that can be made are
\* made sooner or later; the clock is free to move or not.
\* ------------------------------------------------------------------------
YieldTicks == {700}

CoopCreate == /\ InHost
              /\ Cardinality(LiveUsers) < MaxLive
              /\ createTask(TRUE)
CoopSchedule == InHost /\ schedule
CoopYield == InTask /\ ret.op = "schedule" /\ yield
CoopReturn == InTask /\ ret.op = "yield" /\ TaskReturn
CoopTick == \E d \in YieldTicks : Tick(d)

NextCoop ==
  \/ CoopCreate
  \/ CoopSchedule
  \/ CoopYield
  \/ CoopReturn
  \/ CoopTick

SpecCoop ==
  /\ Init /\ [][NextCoop]_vars
  /\ WF_vars(CoopSchedule) /\ WF_vars(CoopYield) /\ WF_vars(CoopReturn)

\* ------------------------------------------------------------------------
\* Semaphore ownership: tasks create and destroy semaphores, are killed
\* and their slots are reused; the host loop also destroys semaphores, which
\* it does under whatever task id is current.
\* ------------------------------------------------------------------------
OwnTaskCreate == /\ InHost
                 /\ Cardinality(LiveUsers) < MaxLive
                 /\ createTask(TRUE)
OwnSchedule == InHost /\ schedule
OwnReturn == InTask /\ TaskReturn
OwnKill == InTask /\ \E t \in 1 .. MaxLive : killTask(t)
OwnSemCreate == /\ InTask
                /\ Cardinality(SemsInUse) < MaxSems
                /\ semCreate(MaxSemValue, MaxSemValue)
OwnSemDestroy == (InHost \/ InTask) /\ \E s \in SemArgs : semDestroy(s)

NextOwn ==
  \/ OwnTaskCreate
  \/ OwnSchedule
  \/ OwnReturn
  \/ OwnKill
  \/ OwnSemCreate
  \/ OwnSemDestroy

SpecOwn == Init /\ [][NextOwn]_vars

\* ------------------------------------------------------------------------
\* Opening files and directories until the tables are full.  The host loop
\* opens too, under whatever task id is current (slot 0 before the first
\* switch); the SD card may be absent at boot.  Only the first entry of each
\* table is closed again.
\* ------------------------------------------------------------------------
OpenTaskCreate == InHost /\ LiveUsers = {} /\ createTask(TRUE)
OpenSchedule == InHost /\ schedule
OpenReturn == InTask /\ TaskReturn
OpenFile == /\ InHost \/ InTask
            /\ \E opened \in BOOLEAN : fileOpen(TRUE, opened)
OpenDir == /\ InHost \/ InTask
           /\ \E opened \in BOOLEAN, isDirectory \in BOOLEAN :
                dirOpen(opened, isDirectory)
OpenFileClose == InTask /\ fileClose(0)
OpenDirClose == InTask /\ dirClose(0)

NextOpen ==
  \/ OpenTaskCreate
  \/ OpenSchedule
  \/ OpenReturn
  \/ OpenFile
  \/ OpenDir
  \/ OpenFileClose
  \/ OpenDirClose

SpecOpen == InitFile /\ [][NextOpen]_vars

\* ------------------------------------------------------------------------
\* The watchdog check taken as a step of its own: schedule() begins with
\* checkWatchdog(), and a check that has just run does nothing when it runs
\* again at the same clock value, so a checkWatchdog step followed by the
\* schedule step is schedule().  Tasks run, yield, sleep and return while
\* the clock moves.
\* ------------------------------------------------------------------------
Checking == ret.op = "checkWatchdog"

DogCreate == /\ ~Checking
             /\ InHost \/ InTask
             /\ Cardinality(LiveUsers) < MaxLive
             /\ createTask(TRUE)
DogCheck == ~Checking /\ InHost /\ checkWatchdog
DogSchedule == InHost /\ schedule
DogReturn == InTask /\ TaskReturn
DogYield == InTask /\ yield
DogSleep == InTask /\ \E ms \in SleepTimes : sleep(ms)
DogTick == ~Checking /\ \E d \in SchedTicks : Tick(d)

NextDog ==
  \/ DogCreate
  \/ DogCheck
  \/ DogSchedule
  \/ DogReturn
  \/ DogYield
  \/ DogSleep
  \/ DogTick

SpecDog == Init /\ [][NextDog]_vars

\* ------------------------------------------------------------------------
\* Mailboxes under tasks that send and receive, kill tasks and create new
\* ones in the slots that became free.
\* ------------------------------------------------------------------------
MailCreate == /\ InHost \/ InTask
              /\ Cardinality(LiveUsers) < MaxLive
              /\ createTask(TRUE)
MailSchedule == InHost /\ schedule
MailReturn == InTask /\ TaskReturn
MailKill == InTask /\ \E t \in 1 .. MaxLive : killTask(t)
MailSend == /\ InTask
            /\ sendCalls < MaxSends
            /\ sendCalls' = sendCalls + 1
            /\ \E t \in SendTargets : ipcSend(t, Buffer(<<1>>), 1)
MailReceive == InTask /\ ipcReceive(TRUE, MSG_DATA_SIZE)

NextMail ==
  \/ MailCreate
  \/ MailSchedule
  \/ MailReturn
  \/ MailKill
  \/ MailSend
  \/ MailReceive

SpecMail == Init /\ [][NextMail]_vars

\* ------------------------------------------------------------------------
\* Devices under one task at a time, killed and created again while device
\* calls are made, by the task and by setup code.
\* ------------------------------------------------------------------------
CapsCreate == /\ InHost \/ InTask
              /\ LiveUsers = {}
              /\ createTask(TRUE)
CapsKill == InTask /\ \E t \in 0 .. 1 : killTask(t)

NextCaps ==
  \/ CapsCreate
  \/ CapsKill
  \/ DevSchedule
  \/ DevReturn
  \/ GpioSetMode
  \/ GpioWrite
  \/ GpioRead
  \/ GpioAnalogRead
  \/ GpioAnalogWrite
  \/ I2cBegin
  \/ I2cWrite
  \/ I2cRead
  \/ I2cRequest
  \/ SpiBegin
  \/ SpiTransfer
  \/ SpiEnd

SpecCaps == Init /\ [][NextCaps]_vars

\* ------------------------------------------------------------------------
\* Scheduler claims
\* ------------------------------------------------------------------------

\* C1: every schedule() call that selects a user task marks that task
\* Running, sets its last_run to the current time and invokes its entry
\* point once, whichever task was current before the call.
C1_ScheduleRunsSelected ==
  [][SchedSchedule =>
       (selected' # 0 =>
          /\ tstate'[selected'] = TASK_RUNNING
          /\ lastRun'[selected'] = now
          /\ executing' = selected')]_vars

\* the tasks that are Ready once checkWatchdog has run and the sleepers
\* whose deadline has passed are woken
ReadyAtSelection == {i \in TaskIds : WokenState(i) = TASK_READY}

HighestPriorityReady ==
  CHOOSE i \in ReadyAtSelection :
    \A j \in ReadyAtSelection :
      \/ priority[j] < priority[i]
      \/ (priority[j] = priority[i] /\ i <= j)

\* C2: schedule() chooses the Ready task of highest priority, the lowest
\* slot among equals, and the idle task (slot 0) when no task is Ready.
C2_SelectsHighestPriorityReady ==
  [][SchedSchedule =>
       selected' = (IF ReadyAtSelection = {} THEN 0 ELSE HighestPriorityReady)]_vars

\* C2 witness: a schedule() call chose slot 1 while slot 2 was Ready with
\* the same priority.
C2_Witness ==
  /\ ret.op = "schedule"
  /\ selected = 1
  /\ tstate[2] = TASK_READY
  /\ priority[1] = priority[2]

\* C3: a task sleeping since sleep(ms) at clock t is neither woken nor
\* selected by a schedule() call made before t + ms, and is woken by the
\* first schedule() call made at or after t + ms.
C3_SleepNeverWakesEarly ==
  [][SchedSchedule =>
       \A i \in TaskIds :
         tstate[i] = TASK_SLEEPING =>
           IF now < sleepDue[i]
           THEN tstate'[i] = TASK_SLEEPING /\ selected' # i
           ELSE tstate'[i] \in {TASK_READY, TASK_RUNNING}]_vars

\* ------------------------------------------------------------------------
\* Heap claims
\* ------------------------------------------------------------------------
RECURSIVE SumMemoryUsedFrom(_)
SumMemoryUsedFrom(i) ==
  IF i >= MAX_TASKS THEN 0 ELSE memoryUsed[i] + SumMemoryUsedFrom(i + 1)

\* the block header at offset o can be stepped over inside the heap
Steppable(o) ==
  /\ InHeap(o, HeaderSize)
  /\ BlockTotal(kernelHeap, o) >= HeaderSize
  /\ InHeap(o, BlockTotal(kernelHeap, o))

\* the payload bytes of the in-use blocks met walking headers from offset o
RECURSIVE LiveBytesFrom(_)
LiveBytesFrom(o) ==
  IF o >= heapUsed \/ ~Steppable(o) THEN 0
  ELSE (IF BlockInUse(kernelHeap, o) THEN BlockSize(kernelHeap, o) ELSE 0)
       + LiveBytesFrom(o + BlockTotal(kernelHeap, o))

\* C4: the sum of memoryUsed over all task slots equals the sum of the
\* payload sizes of the heap blocks that are in use, in every state reached
\* by memAlloc, memFree, memCompact, createTask and killTask.
C4_OwnershipAccounting == SumMemoryUsedFrom(0) = LiveBytesFrom(0)

\* where the walk over block headers from offset o stops: the first offset
\* at or past heapUsed, or -1 at a header that cannot be stepped over
RECURSIVE WalkFrom(_)
WalkFrom(o) ==
  IF o >= heapUsed THEN o
  ELSE IF ~Steppable(o) THEN -1
  ELSE WalkFrom(o + BlockTotal(kernelHeap, o))

\* C5: walking block headers from offset 0 lands exactly on heapUsed,
\* heapUsed never exceeds the heap size, and the compaction corruption panic
\* is never raised, after any sequence of memAlloc, memFree and memCompact.
C5_HeapLinearity ==
  /\ WalkFrom(0) = heapUsed
  /\ heapUsed <= HeapSize
  /\ ~panicked

\* ------------------------------------------------------------------------
\* Mailbox claims
\* ------------------------------------------------------------------------
\* slot j lies in the window of count entries starting at head
InWindow(queue, j) ==
  ((j - queue.head) % MAX_MESSAGE_QUEUE_SIZE) < queue.count

\* C6: for every mailbox, 0 <= count <= capacity, count equals
\* (tail - head) mod capacity with a full ring counted as capacity, the count
\* entries starting at head are valid and every other entry is not.
C6_MailboxCountIdentity ==
  \A i \in TaskIds :
    LET queue == messageQueues[i] IN
    /\ 0 <= queue.count /\ queue.count <= MAX_MESSAGE_QUEUE_SIZE
    /\ queue.count = (IF queue.count = MAX_MESSAGE_QUEUE_SIZE
                      THEN MAX_MESSAGE_QUEUE_SIZE
                      ELSE (queue.tail - queue.head) % MAX_MESSAGE_QUEUE_SIZE)
    /\ (queue.tail - queue.head) % MAX_MESSAGE_QUEUE_SIZE
         = queue.count % MAX_MESSAGE_QUEUE_SIZE
    /\ \A j \in 0 .. (MAX_MESSAGE_QUEUE_SIZE - 1) :
         queue.messages[j].valid = InWindow(queue, j)

\* a full ring whose window wraps past the end of the array, reached by a
\* send after receives
C6_Witness ==
  /\ ret.op = "ipcSend" /\ ret.val = SYS_OK
  /\ messageQueues[1].count = MAX_MESSAGE_QUEUE_SIZE
  /\ messageQueues[1].head = 5

\* C7: for every recipient, each successful ipcReceive returns the oldest
\* message sent to it and not yet received, with its sender and its bytes,
\* and the mailbox holds exactly the messages sent and not yet received:
\* none is lost, duplicated or reordered.
C7_MailboxFifo ==
  /\ [](\A i \in TaskIds : messageQueues[i].count = Len(inbox[i]))
  /\ [][(ret'.op = "ipcReceive" /\ messageQueues' # messageQueues) =>
          /\ inbox[currentTaskId] # <<>>
          /\ ret'.from = Head(inbox[currentTaskId]).fromTaskId
          /\ ret'.val = Len(Head(inbox[currentTaskId]).data)
          /\ ret'.hasBuffer => ret'.buffer = Head(inbox[currentTaskId]).data
          /\ inbox' = [inbox EXCEPT ![currentTaskId] = Tail(@)]]_vars

\* task 1 has received the message task 2 sent first while a different
\* message sent later by task 1 is still queued behind it
C7_Witness ==
  /\ ret.op = "ipcReceive" /\ ret.val = 2 /\ ret.buffer = <<2, 3>> /\ ret.from = 2
  /\ currentTaskId = 1
  /\ Len(inbox[1]) = 1
  /\ Head(inbox[1]).fromTaskId = 1
  /\ Head(inbox[1]).data = <<1>>

\* C8: after a successful ipcSend(t, buf, n) into the empty mailbox of t, the
\* first ipcReceive by t with maxLength >= n returns n, delivers the n bytes
\* of buf and reports the task that was current at the send.
C8_SendReceiveRoundTrip ==
  [][(/\ ret'.op = "ipcReceive"
      /\ inbox[currentTaskId] # <<>>
      /\ Head(inbox[currentTaskId]).intoEmpty
      /\ ret'.maxLength >= Len(Head(inbox[currentTaskId]).data)) =>
       /\ ret'.val = Len(Head(inbox[currentTaskId]).data)
       /\ ret'.hasBuffer => ret'.buffer = Head(inbox[currentTaskId]).data
       /\ ret'.from = Head(inbox[currentTaskId]).fromTaskId]_vars

\* task 1 has received into its buffer the two bytes task 2 sent into its
\* empty mailbox
C8_Witness ==
  /\ ret.op = "ipcReceive" /\ ret.intoEmpty /\ ret.hasBuffer
  /\ ret.val = 2 /\ ret.buffer = <<2, 3>> /\ ret.from = 2
  /\ currentTaskId = 1

\* C9: ipcSend to a mailbox holding MAX_MESSAGE_QUEUE_SIZE messages returns
\* NO_MEMORY and leaves the mailboxes unchanged; the send that follows one
\* successful receive from the full mailbox succeeds.
C9_MailboxOverflow ==
  [][\A a \in FullSendArgs :
       (/\ a[2] > 0 /\ ~a[1].null /\ a[2] <= MSG_DATA_SIZE
        /\ InTask
        /\ ipcSend(currentTaskId, a[1], a[2])) =>
         /\ messageQueues[currentTaskId].count = MAX_MESSAGE_QUEUE_SIZE =>
              /\ ret'.val = SYS_ERR_NO_MEMORY
              /\ messageQueues' = messageQueues
         /\ (/\ ret.op = "ipcReceive" /\ ret.val >= 0
             /\ messageQueues[currentTaskId].count = MAX_MESSAGE_QUEUE_SIZE - 1) =>
              /\ ret'.val = SYS_OK
              /\ messageQueues'[currentTaskId].count = MAX_MESSAGE_QUEUE_SIZE]_vars

\* the send after one receive from the full mailbox has succeeded and
\* filled the ring again
C9_Witness ==
  /\ ret.op = "ipcSend" /\ ret.val = SYS_OK /\ ret.afterReceive
  /\ messageQueues[1].count = MAX_MESSAGE_QUEUE_SIZE
  /\ messageQueues[1].head = 1

\* ------------------------------------------------------------------------
\* Semaphore claims
\* ------------------------------------------------------------------------
\* C10: every semaphore in use has 0 <= value <= maxValue and maxValue >= 1,
\* in every state reached by semCreate, semPost, semWait and semDestroy.
C10_SemaphoreBounds ==
  \A s \in SemIds :
    semaphores[s].inUse =>
      /\ 0 <= semaphores[s].value
      /\ semaphores[s].value <= semaphores[s].maxValue
      /\ semaphores[s].maxValue >= 1

\* semPost has been refused on a semaphore standing at its maximum
C10_Witness ==
  /\ ret.op = "semPost" /\ ret.val = SYS_ERR_INVALID_PARAM
  /\ semaphores[0].inUse
  /\ semaphores[0].value = MaxSemValue
  /\ semaphores[0].maxValue = MaxSemValue

\* another task than w could run: it is Ready and has an entry point
OtherReady(w) ==
  \E i \in TaskIds : i # w /\ tstate[i] = TASK_READY /\ entryPoint[i]

\* C11: while task w waits in semWait without timeout on a semaphore whose
\* value is 0 and another task is Ready, control leaves w at an internal
\* yield and another task runs.
C11_SemWaitSuspends ==
  \A w \in TaskIds :
    (/\ Spinning /\ waiting.timeoutMs = 0
     /\ currentTaskId = w
     /\ OtherReady(w))
      ~> (executing # NoTask /\ executing # w)

\* the time the current semWait call has been waiting
WaitElapsed == Uptime(now) - Uptime(waiting.startTime)

\* C12: semWait(id, t) with t > 0 on a semaphore whose value stays 0 returns
\* TIMEOUT at the first poll at which at least t ms have passed since the
\* call began, never earlier, and leaves the value at 0.
C12_SemaphoreTimeout ==
  [][/\ (ret'.op = "semWait" /\ ret'.val = SYS_ERR_TIMEOUT) =>
          /\ Spinning /\ waiting.timeoutMs > 0
          /\ WaitElapsed >= waiting.timeoutMs
          /\ semaphores[waiting.sem].value = 0
          /\ semaphores' = semaphores
     /\ (/\ SemSpin
         /\ waiting.timeoutMs > 0
         /\ semaphores[waiting.sem].value = 0
         /\ WaitElapsed >= waiting.timeoutMs) =>
          /\ ret'.op = "semWait" /\ ret'.val = SYS_ERR_TIMEOUT
          /\ ~Spinning']_vars

\* a wait has timed out at the poll made exactly t ms after it began, after
\* the clock wrapped around
C12_Witness ==
  /\ ret.op = "semWait" /\ ret.val = SYS_ERR_TIMEOUT
  /\ now = 0
  /\ semaphores[0].inUse /\ semaphores[0].value = 0

\* the step is a successful semPost(s)
PostSucceeds(s) == semPost(s) /\ ret'.val = SYS_OK

\* the step is a semWait on s, entered or polling, that returns OK
WaitSucceeds(s) ==
  /\ ret'.op = "semWait" /\ ret'.val = SYS_OK
  /\ \/ SemSpin /\ waiting.sem = s
     \/ ~Spinning /\ \E t \in SemTimeouts : semWait(s, t)

\* C13: while a semaphore stays in use every successful semPost adds one to
\* its value, every successful semWait takes one off and nothing else
\* changes it, so that equally many of both leave the value as it was.
C13_SemaphoreConservation ==
  [][\A s \in SemIds :
       (semaphores[s].inUse /\ semaphores'[s].inUse) =>
          semaphores'[s].value - semaphores[s].value
            = (IF PostSucceeds(s) THEN 1 ELSE 0) - (IF WaitSucceeds(s) THEN 1 ELSE 0)]_vars

\* a successful semWait has taken the semaphore back to 0
C13_Witness ==
  /\ ret.op = "semWait" /\ ret.val = SYS_OK
  /\ semaphores[0].inUse
  /\ semaphores[0].value = 0
  /\ semaphores[0].maxValue = MaxSemValue

\* ------------------------------------------------------------------------
\* Watchdog claims
\* ------------------------------------------------------------------------
\* the time since task i last yielded
SinceYield(i) == Uptime(now) - Uptime(lastYield[i])

\* C14: a task that yielded within the last WATCHDOG_TIMEOUT_MS is not
\* forced by the watchdog check of schedule(): the check leaves its state
\* and its lastYield as they were.
C14_WatchdogSparesYielding ==
  [][WatchSchedule =>
       \A i \in TaskIds :
         (tstate[i] # TASK_EMPTY /\ SinceYield(i) <= WATCHDOG_TIMEOUT_MS) =>
            /\ WatchdogState(i) = tstate[i]
            /\ lastYield'[i] = lastYield[i]]_vars

\* the watchdog check has just run, after the clock wrapped around, over a
\* task that yielded exactly WATCHDOG_TIMEOUT_MS before, and left it alone
C14_Witness ==
  /\ ret.op = "schedule"
  /\ watchdogLastCheck = now
  /\ now < bootTime
  /\ \E i \in 1 .. MaxLive :
       tstate[i] # TASK_EMPTY /\ SinceYield(i) = WATCHDOG_TIMEOUT_MS

\* C15: a non-empty, non-sleeping task never goes 2 x WATCHDOG_TIMEOUT_MS
\* without yielding or being forced by the watchdog (which resets lastYield).
C15_WatchdogForcesNonYielding ==
  watchdogEnabled =>
    \A i \in TaskIds :
      (tstate[i] # TASK_EMPTY /\ tstate[i] # TASK_SLEEPING) =>
         SinceYield(i) <= 2 * WATCHDOG_TIMEOUT_MS

\* ------------------------------------------------------------------------
\* Handle claims
\* ------------------------------------------------------------------------
\* a call of the current task on file handle h gets through to the file
FileCallSucceeds(h) ==
  /\ \/ fileClose(h)
     \/ \E n \in FileAnswers : fileRead(h, n)
     \/ \E n \in FileAnswers : fileWrite(h, n)
     \/ \E n \in FileAnswers : fileSize(h, n)
  /\ ret'.adapter

\* a call of the current task on directory handle h gets through to the
\* directory
DirCallSucceeds(h) ==
  /\ \/ dirClose(h)
     \/ \E more \in BOOLEAN : dirRead(h, TRUE, more)
     \/ dirRewind(h)
  /\ ret'.adapter

\* C16: whenever a read, write, close, size or rewind on handle h called by
\* task t succeeds, entry h of the table is in use with owner t and the
\* holds-bit of task t for h is set.
C16_HandleOwnership ==
  [][/\ \A h \in FileIds :
          FileCallSucceeds(h) =>
            /\ fileHandles[h].inUse
            /\ fileHandles[h].ownerTaskId = currentTaskId
            /\ h \in taskFileHandles[currentTaskId]
     /\ \A h \in DirIds :
          DirCallSucceeds(h) =>
            /\ dirHandles[h].inUse
            /\ dirHandles[h].ownerTaskId = currentTaskId
            /\ h \in taskDirHandles[currentTaskId]]_vars

\* ------------------------------------------------------------------------
\* Device claims
\* ------------------------------------------------------------------------
GpioCall ==
  \E p \in Pins, v \in PinValues :
    \/ gpioSetMode(p, v)
    \/ gpioWrite(p, v)
    \/ gpioRead(p, v)
    \/ gpioAnalogRead(p, v)
    \/ gpioAnalogWrite(p, v)

I2cCall ==
  \E a \in WireAddresses, n \in TransferLengths :
    \/ i2cBegin(a)
    \/ i2cWrite(a, TRUE, n, n, 0)
    \/ i2cRead(a, TRUE, n, 0, n)
    \/ i2cRequest(a, n, n)

SpiCall ==
  \/ spiBegin
  \/ \E tx \in BOOLEAN, n \in TransferLengths : spiTransfer(tx, TRUE, n)
  \/ spiEnd

\* the call of this step returns PERMISSION and no adapter was invoked
Refused == ret'.val = SYS_ERR_PERMISSION /\ hardware' = hardware

\* C17: every GPIO, I2C and SPI call made while the current task lacks the
\* matching capability returns PERMISSION and leaves the hardware, the count
\* of adapter invocations included, unchanged.
C17_PermissionEnforcement ==
  [][/\ (GpioCall /\ ~permissions[currentTaskId].canAccessGPIO) => Refused
     /\ (I2cCall /\ ~permissions[currentTaskId].canAccessI2C) => Refused
     /\ (SpiCall /\ ~permissions[currentTaskId].canAccessSPI) => Refused]_vars

\* the idle task is current, gpioWrite was refused, and an earlier call by a
\* task with the GPIO capability had driven the pin
C17_Witness ==
  /\ ret = Result("gpioWrite", SYS_ERR_PERMISSION)
  /\ currentTaskId = 0
  /\ ~permissions[0].canAccessGPIO
  /\ hardware.calls > 0

\* ------------------------------------------------------------------------
\* Free and compaction claims
\* ------------------------------------------------------------------------
\* the block behind ptr is in use and is the last one below heapUsed
MostRecentBlock(ptr) ==
  /\ ptr # NullPtr
  /\ BlockInUse(kernelHeap, getBlockHeader(ptr))
  /\ getBlockHeader(ptr) + HeaderSize + BlockSize(kernelHeap, getBlockHeader(ptr))
       = heapUsed

\* C18: memFree of the most recently allocated block puts heapUsed back to
\* its value before that block was allocated, the offset of its header, at
\* once.
C18_AllocFreeRoundTrip ==
  [][\A p \in ptrs :
       (MostRecentBlock(p) /\ memFree(p)) => heapUsed' = getBlockHeader(p)]_vars

\* the header and payload bytes of the in-use blocks met walking headers
\* from offset o
RECURSIVE LiveTotalFrom(_)
LiveTotalFrom(o) ==
  IF o >= heapUsed \/ ~Steppable(o) THEN 0
  ELSE (IF BlockInUse(kernelHeap, o)
        THEN HeaderSize + BlockSize(kernelHeap, o) ELSE 0)
       + LiveTotalFrom(o + HeaderSize + BlockSize(kernelHeap, o))

\* C19: memFree leaves heapUsed and memAvailable as they are; heapUsed only
\* goes down in a call that compacts, and memCompact leaves heapUsed equal
\* to the sum of header size + payload size over the blocks in use.
C19_FreeReclaimedByCompaction ==
  [][/\ \A p \in ptrs \cup {NullPtr} :
          memFree(p) => /\ heapUsed' = heapUsed
                        /\ memAvailable' = memAvailable
     /\ heapUsed' < heapUsed => ret'.op \in {"memCompact", "memAlloc"}
     /\ memCompact => /\ heapUsed' = LiveTotalFrom(0)
                      /\ memAvailable' = HeapSize - LiveTotalFrom(0)]_vars

\* three blocks of 4 bytes were allocated, the middle one was freed, and
\* memCompact moved the third block down: memAvailable went up by 4 bytes +
\* header size
C19_Witness ==
  /\ ret = Result("memCompact", 1)
  /\ ptrs = {HeaderSize, 2 * HeaderSize + 4, 3 * HeaderSize + 8}
  /\ heapUsed = 2 * (HeaderSize + 4)
  /\ BlockInUse(kernelHeap, 0)
  /\ BlockInUse(kernelHeap, HeaderSize + 4)

\* ------------------------------------------------------------------------
\* Dispatcher claims
\* ------------------------------------------------------------------------
\* the system-call surface: file, directory, memory, task, ipc, semaphore,
\* gpio, i2c, spi and system kinds
SyscallSurface ==
  (SYS_FILE_OPEN .. SYS_MEM_COMPACT)
    \cup (SYS_TASK_CREATE .. SYS_DBG_PRINT)

\* the current step is a call of the dispatcher with this kind
SyscallOf(type) ==
  \E arg1 \in SysArg1(type), arg2 \in SysArgs, arg3 \in SysArgs :
    syscall(type, arg1, arg2, arg3)

\* C20: a call of every kind of the system-call surface is forwarded to a
\* component operation, and a call of a kind outside it changes nothing and
\* returns INVALID_CALL.
C20_DispatcherForwardsSurface ==
  [][\A type \in SyscallKinds :
       SyscallOf(type) =>
         IF type \in SyscallSurface
         THEN ret'.op # "syscall"
         ELSE ret' = Result("syscall", SYS_ERR_INVALID_CALL)]_vars

\* the operation behind a call of this kind did what it was asked to, r being
\* the result it left
OperationSucceeded(type, r) ==
  IF r.op = "syscall" THEN FALSE
  ELSE IF type \in {SYS_FILE_CLOSE, SYS_FILE_READ, SYS_FILE_WRITE, SYS_FILE_SIZE,
                    SYS_DIR_CLOSE, SYS_DIR_READ, SYS_DIR_REWIND}
  THEN r.adapter
  ELSE IF type \in {SYS_FILE_DELETE, SYS_DIR_CREATE, SYS_DIR_REMOVE}
  THEN r.val
  ELSE IF type = SYS_MEM_ALLOC THEN r.val # NullPtr
  ELSE IF type \in {SYS_FILE_EXISTS, SYS_MEM_COMPACT, SYS_TASK_YIELD,
                    SYS_TASK_SLEEP, SYS_GET_TIME}
  THEN TRUE
  ELSE r.val >= 0

ErrorCodes == SYS_ERR_WOULD_BLOCK .. SYS_ERR_INVALID_CALL

\* C21: syscall returns a non-negative value exactly when the operation
\* behind it succeeded and one of the eight error codes exactly when it
\* failed.
C21_ResultEncoding ==
  [][\A type \in SyscallKinds :
       SyscallOf(type) =>
         IF OperationSucceeded(type, ret')
         THEN syscallReturn(type, ret') >= 0
         ELSE syscallReturn(type, ret') \in ErrorCodes]_vars

\* ------------------------------------------------------------------------
\* Task slot claims
\* ------------------------------------------------------------------------
\* the in-use file and directory handles whose owner is task t
FilesOwnedBy(t) == {h \in FilesInUse : fileHandles[h].ownerTaskId = t}
DirsOwnedBy(t) == {h \in DirsInUse : dirHandles[h].ownerTaskId = t}

\* C22: killTask(t) of a non-empty user task leaves no in-use file or
\* directory handle owned by t and sets slot t Empty; killTask(0) changes
\* nothing; slot 0 is never Empty.
C22_KillReleasesHandles ==
  /\ [][\A t \in TaskIds :
          killTask(t) =>
            IF t # 0 /\ tstate[t] # TASK_EMPTY
            THEN /\ tstate'[t] = TASK_EMPTY
                 /\ FilesOwnedBy(t)' = {}
                 /\ DirsOwnedBy(t)' = {}
            ELSE UNCHANGED <<kernelVars, ioVars>>]_vars
  /\ [](tstate[0] # TASK_EMPTY)

\* the user slots of the task table that are Empty
EmptyUserSlots == {i \in 1 .. (MAX_TASKS - 1) : tstate[i] = TASK_EMPTY}

\* the lowest member of a non-empty set of slots
Lowest(S) == CHOOSE i \in S : \A j \in S : i <= j

\* C23: while a user slot is Empty, createTask returns the lowest-numbered
\* Empty slot of 1 .. MAX_TASKS - 1 and makes it Ready with id = index,
\* touching no other slot; with no Empty user slot it returns NO_MEMORY and
\* changes no slot.
C23_CreateTaskAllocatesLowestSlot ==
  [][createTask(TRUE) =>
       IF EmptyUserSlots # {}
       THEN /\ ret'.val = Lowest(EmptyUserSlots)
            /\ ret'.val # 0
            /\ tstate'[ret'.val] = TASK_READY
            /\ id'[ret'.val] = ret'.val
            /\ \A i \in TaskIds \ {ret'.val} :
                 tstate'[i] = tstate[i] /\ id'[i] = id[i]
       ELSE /\ ret'.val = SYS_ERR_NO_MEMORY
            /\ tstate' = tstate
            /\ id' = id]_vars

\* createTask has been refused with every user slot taken, one of them by a
\* task that is running
C23_Witness ==
  /\ ret = Result("createTask", SYS_ERR_NO_MEMORY)
  /\ EmptyUserSlots = {}
  /\ \E i \in TaskIds : tstate[i] = TASK_RUNNING

\* ------------------------------------------------------------------------
\* Boot claims
\* ------------------------------------------------------------------------
\* C24: init() called on an initialized kernel returns true and changes no
\* kernel state: tasks, handles, queues, semaphores, heap, SD flag, current
\* task, boot time and watchdog time all stay as they are.
C24_InitIdempotent ==
  [][\A sd \in BOOLEAN :
       init(sd) => /\ ret'.val = 1
                   /\ UNCHANGED <<kernelVars, ioVars>>]_vars

\* init() has returned on a kernel with a user task running
C24_Witness ==
  /\ ret = Result("init", 1)
  /\ \E i \in LiveUsers : tstate[i] = TASK_RUNNING

\* the slots whose state is Running
RunningSlots == {i \in TaskIds : tstate[i] = TASK_RUNNING}

\* C25: at most one slot of the task table is Running, and a Running slot is
\* the one currentTaskId names.
C25_SingleRunning == RunningSlots \subseteq {currentTaskId}

\* schedule() has switched from one user task to another
C25_Witness ==
  /\ ret.op = "schedule"
  /\ currentTaskId # 0
  /\ tstate[currentTaskId] = TASK_RUNNING
  /\ \E i \in LiveUsers : i # currentTaskId /\ lastRun[i] > 0

\* ------------------------------------------------------------------------
\* Cooperative scheduling claims
\* ------------------------------------------------------------------------
\* C26: a user task whose entry point yields and returns every time is
\* invoked again by a later schedule() whenever it is the highest-priority
\* Ready task while the host loop is about to call schedule().
C26_YieldingTaskRunsAgain ==
  \A i \in 1 .. (MAX_TASKS - 1) :
    (InHost /\ WokenState(i) = TASK_READY /\ BestTask = i) ~> (executing = i)

\* ------------------------------------------------------------------------
\* Compaction claims
\* ------------------------------------------------------------------------
\* the payload words of the block whose header is at offset o, in address
\* order
RECURSIVE PayloadFrom(_, _, _)
PayloadFrom(heap, o, n) ==
  IF n <= 0 THEN <<>> ELSE <<heap[o]>> \o PayloadFrom(heap, o + 4, n - 4)

BlockImage(heap, o) ==
  [size |-> BlockSize(heap, o), owner |-> BlockOwner(heap, o),
   payload |-> PayloadFrom(heap, o + HeaderSize, BlockSize(heap, o))]

\* the images of the in-use blocks between offset o and used, in address
\* order
RECURSIVE LiveImagesFrom(_, _, _)
LiveImagesFrom(heap, o, used) ==
  IF o >= used THEN <<>>
  ELSE (IF BlockInUse(heap, o) THEN <<BlockImage(heap, o)>> ELSE <<>>)
       \o LiveImagesFrom(heap, o + HeaderSize + BlockSize(heap, o), used)

\* the blocks laid end to end from offset o stop exactly at used and are all
\* in use
RECURSIVE PackedFrom(_, _, _)
PackedFrom(heap, o, used) ==
  IF o >= used THEN o = used
  ELSE /\ BlockInUse(heap, o)
       /\ PackedFrom(heap, o + HeaderSize + BlockSize(heap, o), used)

\* C27: compaction keeps the in-use blocks, in their order, each with its
\* size, owner and payload, packed from offset 0 up to the new heapUsed with
\* no freed block left among them, and changes no task's memoryUsed.
C27_CompactionPreservesLiveBlocks ==
  [][memCompact =>
       /\ LiveImagesFrom(kernelHeap', 0, heapUsed')
            = LiveImagesFrom(kernelHeap, 0, heapUsed)
       /\ PackedFrom(kernelHeap', 0, heapUsed')
       /\ memoryUsed' = memoryUsed]_vars

\* compaction has moved a block with a filled payload down over a freed one
C27_Witness ==
  /\ ret.op = "memCompact" /\ ret.val > 0
  /\ \E img \in {LiveImagesFrom(kernelHeap, 0, heapUsed)[k] :
                   k \in 1 .. Len(LiveImagesFrom(kernelHeap, 0, heapUsed))} :
       img.payload[1] # 0

\* ------------------------------------------------------------------------
\* Allocation claims
\* ------------------------------------------------------------------------
\* n rounded up to a multiple of 4, as a number
RoundedUp(n) == ((n + 3) \div 4) * 4

\* a block of RoundedUp(n) payload bytes does not fit above used
DoesNotFit(used, n) == used + HeaderSize + RoundedUp(n) > HeapSize

\* heapUsed at the point where memAlloc(n) decides: compaction has run if
\* the block did not fit
UsedWhenDeciding(n) ==
  IF DoesNotFit(heapUsed, n) THEN Compacted.writePos ELSE heapUsed

\* C28: memAlloc(n) returns null exactly when n = 0 or the rounded block
\* still does not fit after a compaction; a failing allocation charges no
\* task and hands out no block; a succeeding one places a block of the
\* rounded size, owned by the current task, at heapUsed and charges the
\* rounded size to that task.
C28_AllocationContract ==
  [][\A n \in WideAllocSizes :
       (~Halted /\ memAlloc(n)) =>
         LET used == UsedWhenDeciding(n) IN
         IF n = 0 \/ DoesNotFit(used, n)
         THEN /\ ret'.val = NullPtr
              /\ memoryUsed' = memoryUsed
              /\ ptrs' = ptrs
              /\ heapUsed' <= heapUsed
         ELSE /\ ret'.val = used + HeaderSize
              /\ BlockSize(kernelHeap', used) = RoundedUp(n)
              /\ BlockOwner(kernelHeap', used) = currentTaskId
              /\ BlockInUse(kernelHeap', used)
              /\ heapUsed' = used + HeaderSize + RoundedUp(n)
              /\ memoryUsed' = [memoryUsed EXCEPT
                                  ![currentTaskId] = (@ + RoundedUp(n)) % SizeMod]]_vars

\* ------------------------------------------------------------------------
\* Double free claims
\* ------------------------------------------------------------------------
\* the header in front of ptr lies inside the used part of the heap and its
\* inUse word is clear: the block has been freed and not been moved since
FreedBlockAt(ptr) ==
  /\ ptr \in ptrs
  /\ ptr <= heapUsed
  /\ kernelHeap[ptr - HeaderSize + 8] = 0

\* C29: memFree on a block that is already not in use changes no block
\* header, nor heapUsed, nor any task's memoryUsed.
C29_DoubleFreeRejected ==
  [][\A p \in ptrs :
       (FreedBlockAt(p) /\ memFree(p)) =>
          /\ kernelHeap' = kernelHeap
          /\ heapUsed' = heapUsed
          /\ memoryUsed' = memoryUsed]_vars

\* a block has been freed a second time, after it was charged to the task
\* and refunded once
C29_Witness ==
  /\ ret = Result("memFree", SYS_ERR_INVALID_PARAM)
  /\ \E p \in ptrs : FreedBlockAt(p) /\ kernelHeap[p - HeaderSize] > 0
  /\ \E q \in ptrs : BlockInUse(kernelHeap, getBlockHeader(q))

\* ------------------------------------------------------------------------
\* Receive claims
\* ------------------------------------------------------------------------
\* the message at the head of the current task's mailbox
HeadMessage ==
  messageQueues[currentTaskId].messages[messageQueues[currentTaskId].head]

\* the current task's mailbox holds a valid head message longer than m
HeadLongerThan(m) ==
  /\ messageQueues[currentTaskId].count > 0
  /\ HeadMessage.valid
  /\ HeadMessage.length > m

\* C30: ipcReceive with a maxLength smaller than the length of the head
\* message returns INVALID_PARAM and leaves every mailbox as it was: the
\* message is neither removed nor truncated.
C30_ReceiveTooSmallBuffer ==
  [][\A hb \in BOOLEAN, m \in ReceiveLengths :
       (HeadLongerThan(m) /\ ipcReceive(hb, m)) =>
          /\ ret'.val = SYS_ERR_INVALID_PARAM
          /\ ret'.buffer = <<>>
          /\ messageQueues' = messageQueues]_vars

\* a receive into a 1-byte buffer has been refused with a 2-byte message at
\* the head of the mailbox
C30_Witness ==
  /\ ret.op = "ipcReceive"
  /\ ret.val = SYS_ERR_INVALID_PARAM
  /\ HeadLongerThan(ret.maxLength)
  /\ HeadMessage.data = <<2, 3>>

\* ------------------------------------------------------------------------
\* Semaphore ownership claims
\* ------------------------------------------------------------------------
\* C31: semDestroy of a semaphore in use succeeds only when the current task
\* is the recorded owner or slot 0; called by any other task it returns
\* PERMISSION and leaves every semaphore as it was.
C31_DestroyOnlyByOwner ==
  [][\A s \in SemIds :
       (semaphores[s].inUse /\ semDestroy(s)) =>
          IF semaphores[s].ownerTaskId = currentTaskId \/ currentTaskId = 0
          THEN ret'.val = SYS_OK /\ ~semaphores'[s].inUse
          ELSE /\ ret'.val = SYS_ERR_PERMISSION
               /\ semaphores' = semaphores]_vars

\* a task has been refused the destruction of a semaphore of another live
\* task that holds a posted value
C31_Witness ==
  /\ ret = Result("semDestroy", SYS_ERR_PERMISSION)
  /\ \E s \in SemsInUse :
       /\ semaphores[s].ownerTaskId # currentTaskId
       /\ semaphores[s].ownerTaskId \in LiveUsers
       /\ semaphores[s].value > 0

\* ------------------------------------------------------------------------
\* Open claims
\* ------------------------------------------------------------------------
FreeFiles == FileIds \ FilesInUse
FreeDirs == DirIds \ DirsInUse

\* the in_use flags and the holds-bits
OpenFlags ==
  <<FilesInUse, DirsInUse, taskFileHandles, taskDirHandles>>

\* the outcome the open of a file must have, given the error that applies
\* in the state it is called in
FileOpenAsItShould(opened, error) ==
  IF error # SYS_OK
  THEN ret'.val = error /\ OpenFlags' = OpenFlags
  ELSE /\ ret'.val = Lowest(FreeFiles)
       /\ fileHandles'[ret'.val].inUse
       /\ fileHandles'[ret'.val].ownerTaskId = currentTaskId
       /\ taskFileHandles' = [taskFileHandles EXCEPT
                                ![currentTaskId] = @ \cup {ret'.val}]
       /\ FilesInUse' = FilesInUse \cup {ret'.val}
       /\ DirsInUse' = DirsInUse /\ taskDirHandles' = taskDirHandles

DirOpenAsItShould(opened, error) ==
  IF error # SYS_OK
  THEN ret'.val = error /\ OpenFlags' = OpenFlags
  ELSE /\ ret'.val = Lowest(FreeDirs)
       /\ dirHandles'[ret'.val].inUse
       /\ dirHandles'[ret'.val].ownerTaskId = currentTaskId
       /\ taskDirHandles' = [taskDirHandles EXCEPT
                               ![currentTaskId] = @ \cup {ret'.val}]
       /\ DirsInUse' = DirsInUse \cup {ret'.val}
       /\ FilesInUse' = FilesInUse /\ taskFileHandles' = taskFileHandles

\* the error of an open as the claim words it: PERMISSION for a task without
\* the SD capability, whatever else holds
ErrorPermissionFirst(free, opened) ==
  IF ~permissions[currentTaskId].canAccessSD THEN SYS_ERR_PERMISSION
  ELSE IF ~sdInitialized THEN SYS_ERR_IO_ERROR
  ELSE IF free = {} THEN SYS_ERR_NO_MEMORY
  ELSE IF ~opened THEN SYS_ERR_NOT_FOUND
  ELSE SYS_OK

\* the same with IO_ERROR for uninitialized storage coming first
ErrorStorageFirst(free, opened) ==
  IF ~sdInitialized THEN SYS_ERR_IO_ERROR
  ELSE IF ~permissions[currentTaskId].canAccessSD THEN SYS_ERR_PERMISSION
  ELSE IF free = {} THEN SYS_ERR_NO_MEMORY
  ELSE IF ~opened THEN SYS_ERR_NOT_FOUND
  ELSE SYS_OK

\* C32 as stated: an open by a task without the SD capability is refused
\* with PERMISSION; otherwise IO_ERROR, NO_MEMORY and NOT_FOUND are returned
\* for their causes; a failing open leaves in_use flags and holds-bits
\* unchanged; a successful one returns the lowest free index, records the
\* current task as owner and sets its holds-bit.
C32_OpenAsStated ==
  [][/\ \A write \in BOOLEAN, opened \in BOOLEAN :
          fileOpen(write, opened) =>
            FileOpenAsItShould(opened, ErrorPermissionFirst(FreeFiles, opened))
     /\ \A opened \in BOOLEAN :
          dirOpen(opened, TRUE) =>
            DirOpenAsItShould(opened, ErrorPermissionFirst(FreeDirs, opened))]_vars

\* C32, amended: the same, except that with the storage layer not
\* initialized every open returns IO_ERROR, also for a task without the SD
\* capability; PERMISSION is returned when the storage layer is initialized.
C32_OpenStorageFirst ==
  [][/\ \A write \in BOOLEAN, opened \in BOOLEAN :
          fileOpen(write, opened) =>
            FileOpenAsItShould(opened, ErrorStorageFirst(FreeFiles, opened))
     /\ \A opened \in BOOLEAN :
          dirOpen(opened, TRUE) =>
            DirOpenAsItShould(opened, ErrorStorageFirst(FreeDirs, opened))
     /\ \A opened \in BOOLEAN :
          dirOpen(opened, FALSE) => OpenFlags' = OpenFlags]_vars

\* an open has been refused with NO_MEMORY on a full file table
C32_Witness ==
  /\ ret.op = "fileOpen" /\ ret.val = SYS_ERR_NO_MEMORY
  /\ FreeFiles = {}
  /\ DirsInUse # {}

\* ------------------------------------------------------------------------
\* File handle claims
\* ------------------------------------------------------------------------
\* handle h is out of range or its entry is not in use
NoSuchFile(h) == h \notin FileIds \/ ~fileHandles[h].inUse

\* entry h is in use and owned by another task than the current one
FileOfAnother(h) ==
  h \in FileIds /\ fileHandles[h].inUse /\ fileHandles[h].ownerTaskId # currentTaskId

\* the latest call was turned down before it got to the file, with
\* PERMISSION if the entry belongs to another task
TurnedDown(h) ==
  /\ ~ret'.adapter
  /\ FileOfAnother(h) => ret'.val = SYS_ERR_PERMISSION
  /\ UNCHANGED handleVars

\* C33: close, read, write and size on a handle that is out of range, not in
\* use or owned by another task are rejected (PERMISSION for the owner
\* mismatch), as is write on an entry not opened for writing; a rejected
\* call leaves the handle tables and all holds-bits unchanged.
C33_FileCallsRejected ==
  [][\A h \in FileArgs :
       /\ (NoSuchFile(h) \/ FileOfAnother(h)) =>
            /\ fileClose(h) => TurnedDown(h)
            /\ \A n \in FileAnswers :
                 /\ fileRead(h, n) => TurnedDown(h)
                 /\ fileWrite(h, n) => TurnedDown(h)
                 /\ fileSize(h, n) => TurnedDown(h)
       /\ (~NoSuchFile(h) /\ ~fileHandles[h].canWrite) =>
            \A n \in FileAnswers :
              fileWrite(h, n) => (TurnedDown(h) /\ ret'.val = SYS_ERR_PERMISSION)]_vars

\* ------------------------------------------------------------------------
\* Watchdog frame claims
\* ------------------------------------------------------------------------
\* every field of task slot i
TaskSlot(i) ==
  <<tstate[i], priority[i], entryPoint[i], lastRun[i], lastYield[i],
    sleepUntil[i], memoryUsed[i], id[i], permissions[i], taskFileHandles[i],
    taskDirHandles[i]>>

\* the fields of task slot i other than its state and lastYield
TaskSlotRest(i) ==
  <<priority[i], entryPoint[i], lastRun[i], sleepUntil[i], memoryUsed[i],
    id[i], permissions[i], taskFileHandles[i], taskDirHandles[i]>>

\* now - lastYield of task i, in the arithmetic of the clock, exceeds the
\* timeout
YieldOverdue(i) == ((now - lastYield[i]) % ClockMod) > WATCHDOG_TIMEOUT_MS

\* C34: checkWatchdog makes no slot Empty, leaves Empty and Sleeping slots
\* alone, and in any other slot changes at most the state, from Running to
\* Ready, and lastYield, to now, and only if the task's now - lastYield
\* exceeds WATCHDOG_TIMEOUT_MS.
C34_WatchdogFrame ==
  [][checkWatchdog =>
       \A i \in TaskIds :
         /\ (tstate'[i] = TASK_EMPTY) = (tstate[i] = TASK_EMPTY)
         /\ tstate[i] \in {TASK_EMPTY, TASK_SLEEPING} => TaskSlot(i)' = TaskSlot(i)
         /\ TaskSlotRest(i)' = TaskSlotRest(i)
         /\ tstate'[i] # tstate[i] =>
              tstate[i] = TASK_RUNNING /\ tstate'[i] = TASK_READY
         /\ lastYield'[i] # lastYield[i] => lastYield'[i] = now
         /\ TaskSlot(i)' # TaskSlot(i) => YieldOverdue(i)]_vars

\* the check has forced a task that kept running past the timeout, with
\* another task asleep
C34_Witness ==
  /\ Checking /\ ret.val > 0
  /\ tstate[currentTaskId] = TASK_READY /\ lastYield[currentTaskId] = now
  /\ \E j \in LiveUsers : tstate[j] = TASK_SLEEPING

\* ------------------------------------------------------------------------
\* Handle and holds-bit consistency claims
\* ------------------------------------------------------------------------
\* C35: for every non-Empty task t and every file or directory handle h, the
\* holds-bit of t for h is set exactly when entry h is in use with owner t;
\* and no in-use entry is owned by an Empty slot.
C35_BitsMatchTable ==
  /\ \A t \in TaskIds :
       tstate[t] # TASK_EMPTY =>
         /\ taskFileHandles[t] = FilesOwnedBy(t)
         /\ taskDirHandles[t] = DirsOwnedBy(t)
  /\ \A h \in FilesInUse : tstate[fileHandles[h].ownerTaskId] # TASK_EMPTY
  /\ \A h \in DirsInUse : tstate[dirHandles[h].ownerTaskId] # TASK_EMPTY

\* ------------------------------------------------------------------------
\* Mailbox claims across slot reuse
\* ------------------------------------------------------------------------
\* C36: when createTask returns slot t, the mailbox of t is empty.
C36_NewTaskHasEmptyMailbox ==
  [][(createTask(TRUE) /\ ret'.val >= 0) =>
       messageQueues'[ret'.val].count = 0]_vars

\* ------------------------------------------------------------------------
\* Freeing an address that names no live block
\* ------------------------------------------------------------------------
\* header offsets of the in-use blocks met when walking the heap from o
RECURSIVE LiveHeadersFrom(_, _, _)
LiveHeadersFrom(heap, o, used) ==
  IF o >= used THEN {}
  ELSE (IF BlockInUse(heap, o) THEN {o} ELSE {})
       \cup LiveHeadersFrom(heap, o + HeaderSize + BlockSize(heap, o), used)

LiveHeaders == LiveHeadersFrom(kernelHeap, 0, heapUsed)
LivePayloads == {o + HeaderSize : o \in LiveHeaders}
HeaderWords(heap, o) == <<heap[o], heap[o + 4], heap[o + 8], heap[o + 12]>>

\* C37: memFree of an address that is not the payload address of an in-use
\* block changes no in-use block's header and no task's memoryUsed.
C37_StaleFreeIsHarmless ==
  [][\A p \in ptrs :
       (memFree(p) /\ p \notin LivePayloads) =>
          /\ memoryUsed' = memoryUsed
          /\ \A o \in LiveHeaders :
               HeaderWords(kernelHeap', o) = HeaderWords(kernelHeap, o)]_vars

\* ------------------------------------------------------------------------
\* The slot named by currentTaskId
\* ------------------------------------------------------------------------
\* C38: currentTaskId names a non-Empty slot in every state reached by
\* schedule, createTask and killTask, the kill of the current task included.
C38_CurrentTaskIsLive == tstate[currentTaskId] # TASK_EMPTY

\* ------------------------------------------------------------------------
\* Capability claims
\* ------------------------------------------------------------------------
\* no slot has the I2C or the SPI capability and slot 0 has none at all
BusesOff ==
  /\ \A i \in TaskIds : ~permissions[i].canAccessI2C /\ ~permissions[i].canAccessSPI
  /\ permissions[0] = NoPermissions

\* C39: only createTask writes capability bits, and only those of the slot
\* it returns; I2C and SPI are off for every slot and the idle task has no
\* capability, so every I2C and SPI call returns PERMISSION and every GPIO
\* call made while slot 0 is current returns PERMISSION.
C39_CapabilitiesFixed ==
  [][/\ BusesOff /\ BusesOff'
     /\ \A i \in TaskIds :
          permissions'[i] # permissions[i] =>
            ret' = Result("createTask", i)
     /\ (I2cCall \/ SpiCall) => ret'.val = SYS_ERR_PERMISSION
     /\ (GpioCall /\ currentTaskId = 0) => ret'.val = SYS_ERR_PERMISSION]_vars

\* a running task has driven a pin and is then refused the I2C
\* bus
C39_Witness ==
  /\ ret = Result("i2cBegin", SYS_ERR_PERMISSION)
  /\ InTask
  /\ tstate[currentTaskId] = TASK_RUNNING
  /\ permissions[currentTaskId].canAccessGPIO
  /\ hardware.calls > 0

\* ------------------------------------------------------------------------
\* Semaphores of killed tasks
\* ------------------------------------------------------------------------
\* C40: killTask changes no semaphore; a semaphore in use stops being in use
\* only in a semDestroy step that returns OK; and semDestroy called while
\* the current task id equals the recorded owner id succeeds, whoever
\* occupies that task slot now.
C40_SemaphoresOutliveOwner ==
  [][/\ (\E t \in TaskIds : killTask(t)) => semaphores' = semaphores
     /\ \A s \in SemIds :
          (semaphores[s].inUse /\ ~semaphores'[s].inUse) =>
             ret' = Result("semDestroy", SYS_OK)
     /\ \A s \in SemIds :
          (/\ semDestroy(s)
           /\ semaphores[s].inUse
           /\ semaphores[s].ownerTaskId = currentTaskId) =>
             /\ ret'.val = SYS_OK
             /\ semaphores' = [semaphores EXCEPT ![s].inUse = FALSE]]_vars

\* a task has just been created in the slot of a killed task whose
\* semaphore is still in use with its value and owner id
C40_Witness ==
  \E t \in LiveUsers :
    /\ ret = Result("createTask", t)
    /\ \E s \in SemsInUse :
         /\ semaphores[s].ownerTaskId = t
         /\ semaphores[s].value = MaxSemValue

====
